---------------------------- MODULE Spec2Model ----------------------------
(***************************************************************************)
(* Arithmetic exercise generator and grader (src/Calculation).             *)
(*                                                                         *)
(* Text is a sequence of Unicode code points, so that formatting, parsing, *)
(* tokenising and the lexicographic sort of canonical keys are computed on *)
(* characters as the Python code computes them.  A Fraction is a pair      *)
(* <<numerator, denominator>> in lowest terms with denominator > 0.        *)
(***************************************************************************)
EXTENDS Integers, Sequences, FiniteSets, TLC

VARIABLES
    \* numutil round trip (fraction_to_str / parse_fraction_str)
    npc, x, text, parsed,
    \* canonical keys of two trees (expr.py key)
    kpc, treeA, treeB, keyA, keyB,
    \* build_expr_with_ops
    bpc, br, n_ops, left, right, node, leaf, tries, slot,
    \* generate
    gpc, r, n, seen, items, attempts, dup_count, zero_div_skips, op_counts,
    exercises, answers,
    \* grade
    qpc, exercise_file, answer_file, exercise_lines, answer_lines, expected,
    correct_ids, wrong_ids, qi, raised, report,
    \* _eval_expr_line on one problem line
    epc, e_tree, e_line, e_tokens, e_rpn, e_val,
    \* random_leaf and the draws of the number generators
    lpc, l_r, l_kind, l_int, l_den, l_num, l_val,
    \* parse_fraction_str on one literal
    ppc, p_text, p_out,
    \* BinOp.to_str on one tree
    spc, s_tree, s_text,
    \* generate: the write_stats argument, Perf.txt, the exception raised
    write_stats, perf, g_raised

numVars   == <<npc, x, text, parsed>>
keyVars   == <<kpc, treeA, treeB, keyA, keyB>>
buildVars == <<bpc, br, n_ops, left, right, node, leaf, tries, slot>>
genVars   == <<gpc, r, n, seen, items, attempts, dup_count, zero_div_skips,
               op_counts, exercises, answers>>
gradeVars == <<qpc, exercise_file, answer_file, exercise_lines, answer_lines,
               expected, correct_ids, wrong_ids, qi, raised, report>>
evalVars  == <<epc, e_tree, e_line, e_tokens, e_rpn, e_val>>
leafVars  == <<lpc, l_r, l_kind, l_int, l_den, l_num, l_val>>
parseVars == <<ppc, p_text, p_out>>
strVars   == <<spc, s_tree, s_text>>
callVars  == <<write_stats, perf, g_raised>>
auxVars   == <<evalVars, leafVars, parseVars, strVars, callVars>>
vars == <<numVars, keyVars, buildVars, genVars, gradeVars, auxVars>>

---------------------------------------------------------------------------
(* Bounds of the model.                                                    *)

MaxNum == 12        \* |numerator| of the Rationals fed to the round trip
MaxDen == 5         \* denominator of the Rationals fed to the round trip
MaxR == 2           \* range bound r of build_expr_with_ops: 1..MaxR
MaxGen == 2         \* arguments of generate: r * n <= MaxGen
MaxAttempts == 4    \* passes of the generation loop that are explored
MaxProblems == 2    \* lines of the problem file given to grade
MaxAnswers == 2     \* lines of the answer file given to grade
MaxKeyLeaf == 1     \* leaves of the trees whose keys are compared: 0..MaxKeyLeaf
MaxLeafR == 6       \* range bound r of random_leaf: 1..MaxLeafR
MaxEvalOps == 2     \* operators of the problem lines given to _eval_expr_line
MaxLineTokens == 3  \* tokens of the lines given to _eval_expr_line, any shape
MaxCall == 1        \* arguments of the generate call with write_stats: r * n <= MaxCall

---------------------------------------------------------------------------
(* Characters.                                                             *)

Ch == [sp |-> 32, apos |-> 39, lpar |-> 40, rpar |-> 41, star |-> 42,
       plus |-> 43, comma |-> 44, minus |-> 45, dot |-> 46, slash |-> 47,
       zero |-> 48, colon |-> 58, eq |-> 61, A |-> 65, D |-> 68, M |-> 77,
       N |-> 78, S |-> 83, lbr |-> 91, rbr |-> 93, x |-> 120, bar |-> 124,
       times |-> 215, divide |-> 247, rsquo |-> 8217,
       icomma |-> 12289, fcomma |-> 65292, fcolon |-> 65306,
       si |-> 22235, ze |-> 21017, yun |-> 36816, suan |-> 31639,
       ti |-> 39064, mu |-> 30446, da |-> 31572, an |-> 26696]

APOSTROPHE == Ch.rsquo

IsDigit(c) == c >= 48 /\ c <= 57
IsSpace(c) == c = Ch.sp

Abs(i) == IF i < 0 THEN -i ELSE i

(* The element of a one-element set.  Only({F(v) : v \in {e}}) is F(e) with *)
(* the intermediate result e bound to v, so that it is evaluated once.      *)
Only(S) == CHOOSE v \in S : TRUE

RECURSIVE GCD(_, _)
GCD(a, b) == IF b = 0 THEN a ELSE GCD(b, a % b)

(* fractions.Fraction(numerator, denominator), denominator # 0 *)
Fraction(num, den) ==
    LET g == GCD(Abs(num), Abs(den))
        s == IF den < 0 THEN -1 ELSE 1
    IN  <<(s * num) \div g, (s * den) \div g>>

FAdd(a, b) == Fraction(a[1] * b[2] + b[1] * a[2], a[2] * b[2])
(* mutant: a difference is never negative *)
FSub_clamped(a, b) == IF a[1] * b[2] < b[1] * a[2] THEN <<0, 1>>
                      ELSE Fraction(a[1] * b[2] - b[1] * a[2], a[2] * b[2])
FSub(a, b) == Fraction(a[1] * b[2] - b[1] * a[2], a[2] * b[2])
FMul(a, b) == Fraction(a[1] * b[1], a[2] * b[2])
FDiv(a, b) == Fraction(a[1] * b[2], a[2] * b[1])
FNeg(a)    == <<-a[1], a[2]>>
FLt(a, b)  == a[1] * b[2] < b[1] * a[2]
FLe(a, b)  == a[1] * b[2] <= b[1] * a[2]
FZero      == <<0, 1>>
FOne       == <<1, 1>>

---------------------------------------------------------------------------
(* Python str and int primitives used by the code.                         *)

RECURSIVE NatStr(_)
NatStr(k) ==
    IF k < 10 THEN <<Ch.zero + k>>
    ELSE Append(NatStr(k \div 10), Ch.zero + (k % 10))

(* f"{i}" of an int *)
IntStr(i) == IF i < 0 THEN <<Ch.minus>> \o NatStr(-i) ELSE NatStr(i)

RECURSIVE LStrip(_)
LStrip(s) ==
    IF s # <<>> /\ IsSpace(Head(s)) THEN LStrip(Tail(s)) ELSE s

RECURSIVE RStrip(_)
RStrip(s) ==
    IF s # <<>> /\ IsSpace(s[Len(s)])
    THEN RStrip(SubSeq(s, 1, Len(s) - 1)) ELSE s

(* str.strip() *)
Strip(s) == RStrip(LStrip(s))

Contains(s, c) == \E i \in 1..Len(s) : s[i] = c

(* index of the first occurrence of c in s (c occurs in s) *)
IndexOf(s, c) == CHOOSE i \in 1..Len(s) : s[i] = c /\ \A j \in 1..(i - 1) : s[j] # c

Count(s, c) == Cardinality({i \in 1..Len(s) : s[i] = c})

Before(s, c) == SubSeq(s, 1, IndexOf(s, c) - 1)
After(s, c)  == SubSeq(s, IndexOf(s, c) + 1, Len(s))

AllDigits(s) == s # <<>> /\ \A i \in 1..Len(s) : IsDigit(s[i])

RECURSIVE DigitsVal(_)
DigitsVal(s) ==
    IF s = <<>> THEN 0
    ELSE 10 * DigitsVal(SubSeq(s, 1, Len(s) - 1)) + (s[Len(s)] - Ch.zero)

(* int(s): surrounding whitespace, one optional sign, decimal digits *)
IntBody(s) ==
    Only({IF t # <<>> /\ (Head(t) = Ch.minus \/ Head(t) = Ch.plus) THEN Tail(t) ELSE t :
            t \in {Strip(s)}})
IntOk(s)  == Only({AllDigits(d) : d \in {IntBody(s)}})
IntVal(s) ==
    Only({IF t # <<>> /\ Head(t) = Ch.minus THEN -DigitsVal(Tail(t))
          ELSE IF t # <<>> /\ Head(t) = Ch.plus THEN DigitsVal(Tail(t))
          ELSE DigitsVal(t) : t \in {Strip(s)}})

---------------------------------------------------------------------------
(* numutil.py                                                              *)

(* mutant: a value of 1 or more is written as an improper fraction *)
fraction_to_str_improper(v) ==
    IF v[2] = 1 THEN IntStr(v[1])
    ELSE (IF FLt(v, FZero) THEN <<Ch.minus>> ELSE <<>>)
         \o NatStr(Abs(v[1])) \o <<Ch.slash>> \o NatStr(v[2])

(* mutant: the mixed-number branch forgets the sign *)
fraction_to_str_nosign(v) ==
    IF v[2] = 1 THEN IntStr(v[1])
    ELSE
      LET sign     == IF FLt(v, FZero) THEN <<Ch.minus>> ELSE <<>>
          ax       == <<Abs(v[1]), v[2]>>
          int_part == ax[1] \div ax[2]
          rem      == FSub(ax, <<int_part, 1>>)
      IN  IF ax[1] < ax[2]
          THEN sign \o NatStr(ax[1]) \o <<Ch.slash>> \o NatStr(ax[2])
          ELSE NatStr(int_part) \o <<APOSTROPHE>>
                    \o IntStr(rem[1]) \o <<Ch.slash>> \o IntStr(rem[2])

fraction_to_str(v) ==
    IF v[2] = 1 THEN IntStr(v[1])
    ELSE
      LET sign     == IF FLt(v, FZero) THEN <<Ch.minus>> ELSE <<>>
          ax       == <<Abs(v[1]), v[2]>>
          int_part == ax[1] \div ax[2]
          rem      == FSub(ax, <<int_part, 1>>)
      IN  IF ax[1] < ax[2]
          THEN sign \o NatStr(ax[1]) \o <<Ch.slash>> \o NatStr(ax[2])
          ELSE IF rem = FZero
          THEN sign \o NatStr(int_part)
          ELSE sign \o NatStr(int_part) \o <<APOSTROPHE>>
                    \o IntStr(rem[1]) \o <<Ch.slash>> \o IntStr(rem[2])

Ok(v)   == [err |-> "none", val |-> v]
Err(e)  == [err |-> e, val |-> FZero]

(* Fraction(int(num), int(den)) *)
IntRatio(num, den) ==
    IF ~IntOk(num) \/ ~IntOk(den) THEN Err("ValueError")
    ELSE IF IntVal(den) = 0 THEN Err("ZeroDivisionError")
    ELSE Ok(Fraction(IntVal(num), IntVal(den)))

(* num, den = s.split('/'); Fraction(int(num), int(den)) *)
ParseRatio(s) ==
    IF Count(s, Ch.slash) # 1 THEN Err("ValueError")
    ELSE Only({IntRatio(nd[1], nd[2]) :
                 nd \in {<<Before(s, Ch.slash), After(s, Ch.slash)>>}})

(* int_part + Fraction(...) of "ipart<sep>num/den" *)
ParseMixed(ipart, f) ==
    IF ~IntOk(ipart) THEN Err("ValueError")
    ELSE IF f.err # "none" THEN f
    ELSE Ok(FAdd(<<IntVal(ipart), 1>>, f.val))

(* the value parsed after the sign has been removed *)
ParseUnsigned(s) ==
    IF Contains(s, APOSTROPHE) \/ Contains(s, Ch.apos) THEN
      LET sep == IF Contains(s, APOSTROPHE) THEN APOSTROPHE ELSE Ch.apos
      IN  Only({ParseMixed(p[1], p[2]) :
                  p \in {<<Before(s, sep), ParseRatio(After(s, sep))>>}})
    ELSE IF Contains(s, Ch.slash) THEN ParseRatio(s)
    ELSE IF IntOk(s) THEN Ok(<<IntVal(s), 1>>)
    ELSE Err("ValueError")

(* parse_fraction_str after s = s.strip() *)
ParseStripped(s) ==
    IF s = <<>> THEN Err("ValueError")
    ELSE IF Head(s) = Ch.minus
    THEN Only({IF u.err # "none" THEN u ELSE Ok(FNeg(u.val)) :
                 u \in {ParseUnsigned(Tail(s))}})
    ELSE ParseUnsigned(s)

parse_fraction_str(s0) == Only({ParseStripped(s) : s \in {Strip(s0)}})

---------------------------------------------------------------------------
(* expr.py                                                                 *)

OPS == <<"+", "-", "*", "/">>
OpSet == {OPS[i] : i \in 1..Len(OPS)}

PREC == [o \in OpSet |-> IF o \in {"+", "-"} THEN 1 ELSE 2]

Num(v) == [kind |-> "Num", value |-> v]
BinOp(o, l, rt) == [kind |-> "BinOp", op |-> o, left |-> l, right |-> rt]

IsNum(t) == t.kind = "Num"

(* BinOp.evaluate raises ZeroDivisionError *)
RECURSIVE Raises(_)
RECURSIVE evaluate(_)
Raises(t) ==
    IF IsNum(t) THEN FALSE
    ELSE \/ Raises(t.left)
         \/ Raises(t.right)
         \/ t.op = "/" /\ evaluate(t.right) = FZero

(* the value returned when evaluate does not raise *)
evaluate(t) ==
    IF IsNum(t) THEN Fraction(t.value[1], t.value[2])
    ELSE
      LET lv == evaluate(t.left)
          rv == evaluate(t.right)
      IN  CASE t.op = "+" -> FAdd(lv, rv)
            [] t.op = "-" -> FSub(lv, rv)
            [] t.op = "*" -> FMul(lv, rv)
            [] t.op = "/" -> IF rv = FZero THEN FZero ELSE FDiv(lv, rv)

RECURSIVE op_count(_)
op_count(t) ==
    IF IsNum(t) THEN 0 ELSE 1 + op_count(t.left) + op_count(t.right)

(* str comparison a <= b: code point by code point, a proper prefix first *)
RECURSIVE StrLe(_, _)
StrLe(a, b) ==
    IF a = <<>> THEN TRUE
    ELSE IF b = <<>> THEN FALSE
    ELSE IF Head(a) # Head(b) THEN Head(a) < Head(b)
    ELSE StrLe(Tail(a), Tail(b))

(* mutant: the two keys are not sorted *)
Sorted2_unsorted(a, b) == <<a, b>>

(* sorted([a, b]) *)
Sorted2(a, b) == IF StrLe(a, b) THEN <<a, b>> ELSE <<b, a>>

(* mutant: the operator tag is left out of the key *)
KeyWrap_untagged(tag, open, a, b, close) ==
    <<open>> \o a \o <<Ch.comma>> \o b \o <<close>>

(* f"{tag}:{open}{a},{b}{close}" *)
KeyWrap(tag, open, a, b, close) ==
    <<tag, Ch.colon, open>> \o a \o <<Ch.comma>> \o b \o <<close>>

RECURSIVE key(_)
key(t) ==
    IF IsNum(t)
    THEN LET v == evaluate(t)
         IN  <<Ch.N, Ch.colon>> \o IntStr(v[1]) \o <<Ch.slash>> \o IntStr(v[2])
    ELSE
      LET lk == key(t.left)
          rk == key(t.right)
          ab == Sorted2(lk, rk)
      IN  CASE t.op = "+" -> KeyWrap(Ch.A, Ch.lpar, ab[1], ab[2], Ch.rpar)
            [] t.op = "*" -> KeyWrap(Ch.M, Ch.lpar, ab[1], ab[2], Ch.rpar)
            [] t.op = "-" -> KeyWrap(Ch.S, Ch.lbr, lk, rk, Ch.rbr)
            [] t.op = "/" -> KeyWrap(Ch.D, Ch.lbr, lk, rk, Ch.rbr)

(* mutant: only a lower precedence asks for parentheses *)
needs_paren_by_precedence(child, parent_op, is_left) ==
    IF IsNum(child) THEN FALSE
    ELSE PREC[child.op] < PREC[parent_op]

needs_paren(child, parent_op, is_left) ==
    IF IsNum(child) THEN FALSE
    ELSE IF PREC[child.op] < PREC[parent_op] THEN TRUE
    ELSE IF parent_op \in {"-", "/"} /\ child.op = parent_op THEN TRUE
    ELSE FALSE

symbol == [o \in OpSet |->
             CASE o = "+" -> Ch.plus
               [] o = "-" -> Ch.minus
               [] o = "*" -> Ch.times
               [] o = "/" -> Ch.divide]

(* f"( {s} )" *)
Paren(s) == <<Ch.lpar, Ch.sp>> \o s \o <<Ch.sp, Ch.rpar>>

RECURSIVE to_str(_)
to_str(t) ==
    IF IsNum(t) THEN fraction_to_str(evaluate(t))
    ELSE
      LET l0   == to_str(t.left)
          r0   == to_str(t.right)
          lstr == IF needs_paren(t.left, t.op, TRUE) THEN Paren(l0) ELSE l0
          rstr == IF needs_paren(t.right, t.op, FALSE) THEN Paren(r0) ELSE r0
      IN  lstr \o <<Ch.sp, symbol[t.op], Ch.sp>> \o rstr

---------------------------------------------------------------------------
(* grade.py: prefixes, tokens, shunting-yard, postfix evaluation           *)

OpChar == [o \in OpSet |->
             CASE o = "+" -> Ch.plus
               [] o = "-" -> Ch.minus
               [] o = "*" -> Ch.star
               [] o = "/" -> Ch.slash]

(* tok in PREC *)
IsOpTok(tok) == Len(tok) = 1 /\ \E o \in OpSet : OpChar[o] = tok[1]
TokOp(tok)   == CHOOSE o \in OpSet : OpChar[o] = tok[1]

StartsWith(s, p) == Len(s) >= Len(p) /\ SubSeq(s, 1, Len(p)) = p
Drop(s, k) == SubSeq(s, k + 1, Len(s))

(* length of the longest prefix of digits: \d+ *)
RECURSIVE DigitRun(_)
DigitRun(s) ==
    IF s # <<>> /\ IsDigit(Head(s)) THEN 1 + DigitRun(Tail(s)) ELSE 0

(* the match of \s*\d+\s*<one of seps>\s* at the start of a: whether it
   matched and the text after it; optional: the separator may be absent *)
NoMatch == [ok |-> FALSE, rest |-> <<>>]
Match(rest) == [ok |-> TRUE, rest |-> rest]
AfterNumber(a, seps, optional) ==
    Only({IF DigitRun(d) = 0 THEN NoMatch
          ELSE Only({IF b # <<>> /\ Head(b) \in seps THEN Match(LStrip(Tail(b)))
                     ELSE IF optional THEN Match(b)
                     ELSE NoMatch :
                       b \in {LStrip(Drop(d, DigitRun(d)))}}) :
            d \in {LStrip(a)}})

(* re.sub(r'^\s*\d+\s*[\.|、|,|，]\s*', '', t) of the stripped t *)
NumberingSub(t) ==
    Only({IF m.ok THEN m.rest ELSE t :
            m \in {AfterNumber(t, {Ch.dot, Ch.bar, Ch.icomma, Ch.comma, Ch.fcomma},
                               FALSE)}})

_strip_numbering(s) == Only({NumberingSub(t) : t \in {Strip(s)}})

(* re.sub(r'^<label>\s*\d+\s*[:：]?\s*', '', s); seps = {} without [:：]? *)
StripLabel(s, label, seps) ==
    IF ~StartsWith(s, label) THEN s
    ELSE Only({IF m.ok THEN m.rest ELSE s :
                 m \in {AfterNumber(Drop(s, Len(label)), seps, TRUE)}})

_strip_exercise_prefix(s) ==
    Only({StripLabel(t, <<Ch.si, Ch.ze, Ch.yun, Ch.suan, Ch.ti, Ch.mu>>, {}) :
            t \in {_strip_numbering(s)}})

_strip_answer_prefix(s) ==
    Only({StripLabel(u, <<Ch.ti, Ch.mu>>, {Ch.colon, Ch.fcolon}) :
            u \in {Only({StripLabel(t, <<Ch.da, Ch.an>>, {Ch.colon, Ch.fcolon}) :
                           t \in {_strip_numbering(s)}})}})

(* str.split(): the maximal runs of non-whitespace *)
RECURSIVE SplitFrom(_, _)
SplitFrom(s, cur) ==
    IF s = <<>> THEN (IF cur = <<>> THEN <<>> ELSE <<cur>>)
    ELSE IF IsSpace(Head(s))
    THEN (IF cur = <<>> THEN <<>> ELSE <<cur>>) \o SplitFrom(Tail(s), <<>>)
    ELSE SplitFrom(Tail(s), Append(cur, Head(s)))
Split(s) == SplitFrom(s, <<>>)

_normalize_tokens(raw_tokens) ==
    [i \in 1..Len(raw_tokens) |->
        IF raw_tokens[i] = <<Ch.times>> THEN <<Ch.star>>
        ELSE IF raw_tokens[i] = <<Ch.divide>> THEN <<Ch.slash>>
        ELSE raw_tokens[i]]

(* if s.endswith('='): s = s[:-1].strip() *)
DropEquals(s) ==
    IF s # <<>> /\ s[Len(s)] = Ch.eq THEN Strip(SubSeq(s, 1, Len(s) - 1)) ELSE s

_to_tokens(expr_line) ==
    Only({Only({_normalize_tokens(raw_tokens) : raw_tokens \in {Split(DropEquals(s))}}) :
            s \in {_strip_exercise_prefix(Strip(expr_line))}})

is_number(tok) == parse_fraction_str(tok).err = "none"

RpnOk(o)  == [err |-> "none", rpn |-> o]
RpnErr(e) == [err |-> e, rpn |-> <<>>]

Top(st) == st[Len(st)]
Pop(st) == SubSeq(st, 1, Len(st) - 1)

(* mutant: operators of equal precedence are not popped *)
RECURSIVE PopOps_strict(_, _, _)
PopOps_strict(output, ops, tok) ==
    IF ops # <<>> /\ IsOpTok(Top(ops)) /\ PREC[TokOp(Top(ops))] > PREC[TokOp(tok)]
    THEN PopOps_strict(Append(output, Top(ops)), Pop(ops), tok)
    ELSE <<output, ops>>

(* while ops and ops[-1] in PREC and PREC[ops[-1]] >= PREC[tok]: pop to output *)
RECURSIVE PopOps(_, _, _)
PopOps(output, ops, tok) ==
    IF ops # <<>> /\ IsOpTok(Top(ops)) /\ PREC[TokOp(Top(ops))] >= PREC[TokOp(tok)]
    THEN PopOps(Append(output, Top(ops)), Pop(ops), tok)
    ELSE <<output, ops>>

(* while ops and ops[-1] != '(': pop to output *)
RECURSIVE PopToParen(_, _)
PopToParen(output, ops) ==
    IF ops # <<>> /\ Top(ops) # <<Ch.lpar>>
    THEN PopToParen(Append(output, Top(ops)), Pop(ops))
    ELSE <<output, ops>>

(* the final while ops: loop *)
RECURSIVE Drain(_, _)
Drain(output, ops) ==
    IF ops = <<>> THEN RpnOk(output)
    ELSE IF Top(ops) \in {<<Ch.lpar>>, <<Ch.rpar>>} THEN RpnErr("ValueError")
    ELSE Drain(Append(output, Top(ops)), Pop(ops))

ShuntOk(o, p)  == [err |-> "none", output |-> o, ops |-> p]
ShuntErr(e)    == [err |-> e, output |-> <<>>, ops |-> <<>>]

(* one pass of for tok in tokens, from the lists in st *)
ShuntStep(st, tok) ==
    IF is_number(tok) THEN ShuntOk(Append(st.output, tok), st.ops)
    ELSE IF IsOpTok(tok)
    THEN Only({ShuntOk(p[1], Append(p[2], tok)) :
                 p \in {PopOps(st.output, st.ops, tok)}})
    ELSE IF tok = <<Ch.lpar>> THEN ShuntOk(st.output, Append(st.ops, tok))
    ELSE IF tok = <<Ch.rpar>>
    THEN Only({IF p[2] = <<>> THEN ShuntErr("ValueError")
               ELSE ShuntOk(p[1], Pop(p[2])) :
                 p \in {PopToParen(st.output, st.ops)}})
    ELSE ShuntErr("ValueError")

(* the token loop *)
RECURSIVE ShuntFrom(_, _)
ShuntFrom(tokens, st) ==
    IF st.err # "none" THEN RpnErr(st.err)
    ELSE IF tokens = <<>> THEN Drain(st.output, st.ops)
    ELSE Only({ShuntFrom(Tail(tokens), nx) : nx \in {ShuntStep(st, Head(tokens))}})

_shunting_yard(tokens) == ShuntFrom(tokens, ShuntOk(<<>>, <<>>))

StackOk(st) == [err |-> "none", st |-> st]
StackErr(e) == [err |-> e, st |-> <<>>]

(* one pass of for tok in rpn, from the stack st *)
RpnStep(st, tok) ==
    IF IsOpTok(tok)
    THEN IF Len(st) < 2 THEN StackErr("ValueError")
         ELSE
           LET b    == st[Len(st)]
               a    == st[Len(st) - 1]
               rest == SubSeq(st, 1, Len(st) - 2)
           IN  CASE TokOp(tok) = "+" -> StackOk(Append(rest, FAdd(a, b)))
                 [] TokOp(tok) = "-" -> StackOk(Append(rest, FSub(a, b)))
                 [] TokOp(tok) = "*" -> StackOk(Append(rest, FMul(a, b)))
                 [] TokOp(tok) = "/" ->
                      IF b = FZero THEN StackErr("ZeroDivisionError")
                      ELSE StackOk(Append(rest, FDiv(a, b)))
    ELSE Only({IF v.err # "none" THEN StackErr(v.err)
               ELSE StackOk(Append(st, v.val)) : v \in {parse_fraction_str(tok)}})

(* the postfix loop and the final stack check *)
RECURSIVE RpnFrom(_, _)
RpnFrom(rpn, sk) ==
    IF sk.err # "none" THEN Err(sk.err)
    ELSE IF rpn = <<>>
    THEN IF Len(sk.st) # 1 THEN Err("ValueError") ELSE Ok(sk.st[1])
    ELSE Only({RpnFrom(Tail(rpn), nx) : nx \in {RpnStep(sk.st, Head(rpn))}})

_eval_rpn(rpn) == RpnFrom(rpn, StackOk(<<>>))

_eval_expr_line(expr_line) ==
    Only({IF rpn.err # "none" THEN Err(rpn.err) ELSE _eval_rpn(rpn.rpn) :
            rpn \in {Only({_shunting_yard(tokens) : tokens \in {_to_tokens(expr_line)}})}})

---------------------------------------------------------------------------
(* Values of the variables a specification does not use.                   *)

NumIdle ==
    /\ npc = "idle" /\ x = FZero /\ text = <<>> /\ parsed = Err("pending")
KeyIdle ==
    /\ kpc = "idle" /\ treeA = Num(FZero) /\ treeB = Num(FZero)
    /\ keyA = <<>> /\ keyB = <<>>
BuildIdle ==
    /\ bpc = "idle" /\ br = 1 /\ n_ops = 1
    /\ left = Num(FZero) /\ right = Num(FZero)
    /\ node = Num(FZero) /\ leaf = Num(FZero) /\ tries = 0 /\ slot = 0
GenIdle ==
    /\ gpc = "idle" /\ r = 1 /\ n = 1 /\ seen = {} /\ items = <<>>
    /\ attempts = 0 /\ dup_count = 0 /\ zero_div_skips = 0
    /\ op_counts = [k \in 1..3 |-> 0]
    /\ exercises = <<>> /\ answers = <<>>
GradeIdle ==
    /\ qpc = "idle" /\ exercise_file = <<>> /\ answer_file = <<>>
    /\ exercise_lines = <<>> /\ answer_lines = <<>> /\ expected = <<>>
    /\ correct_ids = <<>> /\ wrong_ids = <<>> /\ qi = 0
    /\ raised = "none" /\ report = <<>>

EvalIdle ==
    /\ epc = "idle" /\ e_tree = <<>> /\ e_line = <<>> /\ e_tokens = <<>> /\ e_rpn = <<>>
    /\ e_val = Err("pending")
LeafIdle ==
    /\ lpc = "idle" /\ l_r = 1 /\ l_kind = "nat" /\ l_int = 0 /\ l_den = 1
    /\ l_num = 0 /\ l_val = FZero
ParseIdle == ppc = "idle" /\ p_text = <<>> /\ p_out = Err("pending")
StrIdle == spc = "idle" /\ s_tree = Num(FZero) /\ s_text = <<>>
CallIdle == write_stats = FALSE /\ perf = <<>> /\ g_raised = "none"
AuxIdle == EvalIdle /\ LeafIdle /\ ParseIdle /\ StrIdle /\ CallIdle

---------------------------------------------------------------------------
(* SpecNum: fraction_to_str followed by parse_fraction_str on a Rational.  *)

Rationals == {Fraction(p, q) : p \in (-MaxNum)..MaxNum, q \in 1..MaxDen}

NumInit ==
    /\ npc = "format" /\ x \in Rationals /\ text = <<>> /\ parsed = Err("pending")
    /\ KeyIdle /\ BuildIdle /\ GenIdle /\ GradeIdle /\ AuxIdle

Format ==
    /\ npc = "format"
    /\ text' = fraction_to_str(x)
    /\ npc' = "parse"
    /\ UNCHANGED <<x, parsed, keyVars, buildVars, genVars, gradeVars, auxVars>>

Parse ==
    /\ npc = "parse"
    /\ parsed' = parse_fraction_str(text)
    /\ npc' = "done"
    /\ UNCHANGED <<x, text, keyVars, buildVars, genVars, gradeVars, auxVars>>

NumNext == Format \/ Parse

SpecNum == NumInit /\ [][NumNext]_vars

---------------------------------------------------------------------------
(* SpecKey: the canonical keys of two expression trees.                    *)

KeyLeaves == {Num(<<v, 1>>) : v \in 0..MaxKeyLeaf}

KeyTrees1 == {BinOp(o, a, b) : o \in OpSet, a \in KeyLeaves, b \in KeyLeaves}

KeyTrees2 ==
    {BinOp(o, a, b) : o \in OpSet, a \in KeyTrees1, b \in KeyLeaves}
    \cup {BinOp(o, a, b) : o \in OpSet, a \in KeyLeaves, b \in KeyTrees1}

(* every tree with at most two operators over the leaves *)
KeyTrees == KeyLeaves \cup KeyTrees1 \cup KeyTrees2

KeyInit ==
    /\ kpc = "start" /\ treeA \in KeyTrees /\ treeB \in KeyTrees
    /\ keyA = <<>> /\ keyB = <<>>
    /\ NumIdle /\ BuildIdle /\ GenIdle /\ GradeIdle /\ AuxIdle

ComputeKeys ==
    /\ kpc = "start"
    /\ keyA' = key(treeA)
    /\ keyB' = key(treeB)
    /\ kpc' = "done"
    /\ UNCHANGED <<treeA, treeB, numVars, buildVars, genVars, gradeVars, auxVars>>

KeyNext == ComputeKeys

SpecKey == KeyInit /\ [][KeyNext]_vars

---------------------------------------------------------------------------
(* numutil.py / gen.py: the values the random draws can produce.           *)

Max(a, b) == IF a >= b THEN a ELSE b

(* mutant: the upper bound of the draw is r instead of r - 1 *)
NaturalDraws_inclusive(rr) == 0..Max(0, rr)

(* random.randint(0, max(0, r - 1)) *)
NaturalDraws(rr) == 0..Max(0, rr - 1)

(* den = random.randint(2, max(2, r - 1)) *)
DenDraws(rr) == 2..Max(2, rr - 1)

(* num = random.randint(1, den - 1) *)
NumDraws(den) == 1..(den - 1)

(* for r >= 1, the only values it is called with: generate raises for r < 1
   before any draw *)
make_natural(rr) == {<<k, 1>> : k \in NaturalDraws(rr)}

make_proper_fraction(rr) ==
    IF rr < 2 THEN {FZero}
    ELSE UNION {{Fraction(num, den) : num \in NumDraws(den)} : den \in DenDraws(rr)}

make_mixed_fraction(rr) ==
    IF rr < 2 THEN make_natural(rr)
    ELSE {FAdd(<<int_part, 1>>, frac) :
            int_part \in NaturalDraws(rr), frac \in make_proper_fraction(rr)}

random_leaf(rr) ==
    LET choices == IF rr >= 2 THEN {"nat", "frac", "mixed"} ELSE {"nat"}
        nat     == {Num(v) : v \in make_natural(rr)}
        frac    == {Num(f) : f \in make_proper_fraction(rr) \ {FZero}}
                   \cup (IF FZero \in make_proper_fraction(rr) THEN nat ELSE {})
        mixed   == {Num(v) : v \in make_mixed_fraction(rr)}
    IN  (IF "nat" \in choices THEN nat ELSE {})
        \cup (IF "frac" \in choices THEN frac ELSE {})
        \cup (IF "mixed" \in choices THEN mixed ELSE {})

(* mutant: every difference is accepted *)
valid_sub_any(lv, rv) == TRUE

valid_sub(lv, rv) == FLe(rv, lv)

(* mutant: the quotient is not required to be below 1 *)
valid_div_unbounded(lv, rv) ==
    IF rv = FZero THEN FALSE ELSE FLt(FZero, FDiv(lv, rv))

(* mutant: a zero divisor is let through *)
valid_div_zero_allowed(lv, rv) ==
    IF rv = FZero THEN TRUE
    ELSE FLt(FZero, FDiv(lv, rv)) /\ FLt(FDiv(lv, rv), FOne)

valid_div(lv, rv) ==
    IF rv = FZero THEN FALSE
    ELSE FLt(FZero, FDiv(lv, rv)) /\ FLt(FDiv(lv, rv), FOne)

make_binop(o, l, rt) == BinOp(o, l, rt)

(* one pass of the first loop body: the node built, if any *)
FirstTry(o, l, rt) ==
    CASE o = "-" -> IF valid_sub(evaluate(l), evaluate(rt))
                    THEN {make_binop(o, l, rt)} ELSE {}
      [] o = "/" -> IF valid_div(evaluate(l), evaluate(rt))
                    THEN {make_binop(o, l, rt)} ELSE {}
      [] OTHER   -> {make_binop(o, l, rt)}

(* mutant: a '+' or '*' pass keeps the tree without attaching the leaf *)
ExtendTry_detached(o, nd, lf) ==
    CASE o = "-" -> IF valid_sub(evaluate(nd), evaluate(lf))
                    THEN {make_binop(o, nd, lf)}
                    ELSE IF valid_sub(evaluate(lf), evaluate(nd))
                    THEN {make_binop(o, lf, nd)} ELSE {}
      [] o = "/" -> IF valid_div(evaluate(nd), evaluate(lf))
                    THEN {make_binop(o, nd, lf)}
                    ELSE IF valid_div(evaluate(lf), evaluate(nd))
                    THEN {make_binop(o, lf, nd)} ELSE {}
      [] OTHER   -> {nd}

(* mutant: '+' and '*' put the new leaf on the left *)
ExtendTry_leaf_first(o, nd, lf) ==
    CASE o = "-" -> IF valid_sub(evaluate(nd), evaluate(lf))
                    THEN {make_binop(o, nd, lf)}
                    ELSE IF valid_sub(evaluate(lf), evaluate(nd))
                    THEN {make_binop(o, lf, nd)} ELSE {}
      [] o = "/" -> IF valid_div(evaluate(nd), evaluate(lf))
                    THEN {make_binop(o, nd, lf)}
                    ELSE IF valid_div(evaluate(lf), evaluate(nd))
                    THEN {make_binop(o, lf, nd)} ELSE {}
      [] OTHER   -> {make_binop(o, lf, nd)}

(* mutant: '-' tries the new leaf as the left operand first *)
ExtendTry_leaf_minuend(o, nd, lf) ==
    CASE o = "-" -> IF valid_sub(evaluate(lf), evaluate(nd))
                    THEN {make_binop(o, lf, nd)}
                    ELSE IF valid_sub(evaluate(nd), evaluate(lf))
                    THEN {make_binop(o, nd, lf)} ELSE {}
      [] o = "/" -> IF valid_div(evaluate(nd), evaluate(lf))
                    THEN {make_binop(o, nd, lf)}
                    ELSE IF valid_div(evaluate(lf), evaluate(nd))
                    THEN {make_binop(o, lf, nd)} ELSE {}
      [] OTHER   -> {make_binop(o, nd, lf)}

(* one pass of the extension loop body: the tree built, if any *)
ExtendTry(o, nd, lf) ==
    CASE o = "-" -> IF valid_sub(evaluate(nd), evaluate(lf))
                    THEN {make_binop(o, nd, lf)}
                    ELSE IF valid_sub(evaluate(lf), evaluate(nd))
                    THEN {make_binop(o, lf, nd)} ELSE {}
      [] o = "/" -> IF valid_div(evaluate(nd), evaluate(lf))
                    THEN {make_binop(o, nd, lf)}
                    ELSE IF valid_div(evaluate(lf), evaluate(nd))
                    THEN {make_binop(o, lf, nd)} ELSE {}
      [] OTHER   -> {make_binop(o, nd, lf)}

---------------------------------------------------------------------------
(* SpecBuild: build_expr_with_ops(r, n_ops), one loop pass per step.       *)

FirstRetries == 100
ExtendRetries == 50

BuildInit ==
    /\ bpc = "first" /\ br \in 1..MaxR /\ n_ops \in 1..3
    /\ left \in random_leaf(br) /\ right \in random_leaf(br)
    /\ node = Num(FZero) /\ leaf = Num(FZero) /\ tries = 0 /\ slot = 0
    /\ NumIdle /\ KeyIdle /\ GenIdle /\ GradeIdle /\ AuxIdle

(* after a tree is built: the next pass of for _ in range(n_ops - 1), or return *)
NextSlot ==
    /\ tries' = 0
    /\ IF slot < n_ops - 1
       THEN /\ bpc' = "extend" /\ slot' = slot + 1
            /\ leaf' \in random_leaf(br)
       ELSE /\ bpc' = "done" /\ UNCHANGED <<slot, leaf>>

FirstAccept ==
    /\ bpc = "first" /\ tries < FirstRetries
    /\ \E o \in OpSet : node' \in FirstTry(o, left, right)
    /\ NextSlot
    /\ UNCHANGED <<br, n_ops, left, right, numVars, keyVars, genVars, gradeVars, auxVars>>

FirstRetry ==
    /\ bpc = "first" /\ tries < FirstRetries
    /\ \E o \in OpSet : FirstTry(o, left, right) = {}
    /\ left' \in random_leaf(br) /\ right' \in random_leaf(br)
    /\ tries' = tries + 1
    /\ UNCHANGED <<bpc, br, n_ops, node, leaf, slot,
                   numVars, keyVars, genVars, gradeVars, auxVars>>

FirstFallback ==
    /\ bpc = "first" /\ tries = FirstRetries
    /\ node' = make_binop("+", left, right)
    /\ NextSlot
    /\ UNCHANGED <<br, n_ops, left, right, numVars, keyVars, genVars, gradeVars, auxVars>>

ExtendAccept ==
    /\ bpc = "extend" /\ tries < ExtendRetries
    /\ \E o \in OpSet : node' \in ExtendTry(o, node, leaf)
    /\ NextSlot
    /\ UNCHANGED <<br, n_ops, left, right, numVars, keyVars, genVars, gradeVars, auxVars>>

ExtendRetry ==
    /\ bpc = "extend" /\ tries < ExtendRetries
    /\ \E o \in OpSet : ExtendTry(o, node, leaf) = {}
    /\ leaf' \in random_leaf(br)
    /\ tries' = tries + 1
    /\ UNCHANGED <<bpc, br, n_ops, left, right, node, slot,
                   numVars, keyVars, genVars, gradeVars, auxVars>>

ExtendFallback ==
    /\ bpc = "extend" /\ tries = ExtendRetries
    /\ node' = make_binop("+", node, leaf)
    /\ NextSlot
    /\ UNCHANGED <<br, n_ops, left, right, numVars, keyVars, genVars, gradeVars, auxVars>>

BuildNext ==
    \/ FirstAccept \/ FirstRetry \/ FirstFallback
    \/ ExtendAccept \/ ExtendRetry \/ ExtendFallback

SpecBuild == BuildInit /\ [][BuildNext]_vars

---------------------------------------------------------------------------
(* SpecGen: generate(r, n), one pass of the while loop per step; the call  *)
(* of build_expr_with_ops is part of the pass.                             *)

(* the trees the first loop of build_expr_with_ops can end with *)
FirstNodes(rr) ==
    UNION {FirstTry(o, l, rt) \cup {make_binop("+", l, rt)} :
             <<o, l, rt>> \in OpSet \X random_leaf(rr) \X random_leaf(rr)}

(* the trees one pass of for _ in range(n_ops - 1) can turn nd into *)
Extensions(nd, rr) ==
    UNION {ExtendTry(o, nd, lf) \cup {make_binop("+", nd, lf)} :
             <<o, lf>> \in OpSet \X random_leaf(rr)}

(* the trees build_expr_with_ops(rr, k) can return *)
RECURSIVE build_expr_with_ops(_, _)
build_expr_with_ops(rr, k) ==
    IF k = 1 THEN FirstNodes(rr)
    ELSE UNION {Extensions(nd, rr) : nd \in build_expr_with_ops(rr, k - 1)}

AttemptFactor == 200

(* f"{idx}. 四则运算题目{idx}  {expr.to_str()} =" *)
ExerciseLine(idx, e) ==
    NatStr(idx) \o <<Ch.dot, Ch.sp, Ch.si, Ch.ze, Ch.yun, Ch.suan, Ch.ti, Ch.mu>>
    \o NatStr(idx) \o <<Ch.sp, Ch.sp>> \o to_str(e) \o <<Ch.sp, Ch.eq>>

(* f"{idx}. 答案{idx} {fraction_to_str(val)}" *)
AnswerLine(idx, v) ==
    NatStr(idx) \o <<Ch.dot, Ch.sp, Ch.da, Ch.an>> \o NatStr(idx)
    \o <<Ch.sp>> \o fraction_to_str(v)

(* mutant: the seen-set is not consulted *)
InSeen_never(k, s) == FALSE

(* k in seen *)
InSeen(k, s) == k \in s

(* the arguments of generate: r >= 1, n >= 1 *)
GenInputs == {p \in (1..MaxGen) \X (1..MaxGen) : p[1] * p[2] <= MaxGen}

GenInit ==
    /\ gpc = "loop"
    /\ \E p \in GenInputs : r = p[1] /\ n = p[2]
    /\ seen = {} /\ items = <<>>
    /\ attempts = 0 /\ dup_count = 0 /\ zero_div_skips = 0
    /\ op_counts = [k \in 1..3 |-> 0]
    /\ exercises = <<>> /\ answers = <<>>
    /\ NumIdle /\ KeyIdle /\ BuildIdle /\ GradeIdle /\ AuxIdle

(* mutant: the attempt budget is not consulted *)
LoopCond_unbudgeted == Len(items) < n

(* mutant: the budget is one attempt short *)
LoopCond_short == Len(items) < n /\ attempts + 1 < n * AttemptFactor

(* while len(items) < target and attempts < max_attempts *)
LoopCond == Len(items) < n /\ attempts < n * AttemptFactor

(* mutant: the attempt is not counted in the histogram *)
Increment_skipped(counts, k) == counts

(* op_counts[n_ops] += 1 *)
Increment(counts, k) == [counts EXCEPT ![k] = @ + 1]

(* the passes that are explored: the first MaxAttempts and the last
   MaxAttempts of the budget *)
Explored == attempts < MaxAttempts \/ attempts >= n * AttemptFactor - MaxAttempts

(* the random draws that are explored for a range beyond MaxR: those that
   the range 1 allows too (the leaf 0) *)
DrawRange(rr) == IF rr <= MaxR THEN rr ELSE 1

Attempt ==
    /\ gpc = "loop" /\ LoopCond /\ Explored
    /\ attempts' = attempts + 1
    /\ \E k \in 1..3 :
         /\ op_counts' = Increment(op_counts, k)
         /\ \E expr \in build_expr_with_ops(DrawRange(r), k) :
              IF InSeen(key(expr), seen)
              THEN /\ dup_count' = dup_count + 1
                   /\ UNCHANGED <<seen, items, zero_div_skips>>
              ELSE IF Raises(expr)
              THEN /\ zero_div_skips' = zero_div_skips + 1
                   /\ UNCHANGED <<seen, items, dup_count>>
              ELSE /\ seen' = seen \cup {key(expr)}
                   /\ items' = Append(items, [expr |-> expr, val |-> evaluate(expr)])
                   /\ UNCHANGED <<dup_count, zero_div_skips>>
    /\ UNCHANGED <<gpc, r, n, exercises, answers,
                   numVars, keyVars, buildVars, gradeVars, auxVars>>

(* took_ms = int((t1 - t0) * 1000): the elapsed times that are explored *)
ElapsedMs == {0, 3}

(* the eight lines written to Perf.txt *)
PerfReport(took_ms) ==
    << <<82, 97, 110, 103, 101, 32, 114, 58, 32>> \o IntStr(r),    \* "Range r: "
       <<84, 97, 114, 103, 101, 116, 32, 110, 58, 32>> \o IntStr(n),    \* "Target n: "
       <<71, 101, 110, 101, 114, 97, 116, 101, 100, 58, 32>>    \* "Generated: "
          \o IntStr(Len(items)),
       <<65, 116, 116, 101, 109, 112, 116, 115, 58, 32>>    \* "Attempts: "
          \o IntStr(attempts),
       <<68, 117, 112, 108, 105, 99, 97, 116, 101, 115, 32,    \* "Duplicates skipped: "
         115, 107, 105, 112, 112, 101, 100, 58, 32>> \o IntStr(dup_count),
       <<90, 101, 114, 111, 68, 105, 118, 105, 115, 105, 111, 110, 32,    \* "ZeroDivision skipped: "
         115, 107, 105, 112, 112, 101, 100, 58, 32>> \o IntStr(zero_div_skips),
       <<79, 112, 32, 99, 111, 117, 110, 116, 32, 100, 105, 115, 116, 114, 105,    \* "Op count distribution: 1->"
         98, 117, 116, 105, 111, 110, 58, 32, 49, 45, 62>> \o IntStr(op_counts[1])
          \o <<44, 32, 50, 45, 62>> \o IntStr(op_counts[2])    \* ", 2->"
          \o <<44, 32, 51, 45, 62>> \o IntStr(op_counts[3]),    \* ", 3->"
       <<84, 105, 109, 101, 58, 32>> \o IntStr(took_ms) \o <<32, 109, 115>> >>    \* "Time: ", " ms"

(* the loop has ended: Exercises.txt and Answers.txt are written, and
   Perf.txt when write_stats is set *)
WriteFiles ==
    /\ gpc = "loop" /\ ~LoopCond
    /\ exercises' = [i \in 1..Len(items) |-> ExerciseLine(i, items[i].expr)]
    /\ answers' = [i \in 1..Len(items) |-> AnswerLine(i, items[i].val)]
    /\ IF write_stats THEN \E took_ms \in ElapsedMs : perf' = PerfReport(took_ms)
       ELSE UNCHANGED perf
    /\ gpc' = "done"
    /\ UNCHANGED <<r, n, seen, items, attempts, dup_count, zero_div_skips,
                   op_counts, numVars, keyVars, buildVars, gradeVars,
                   evalVars, leafVars, parseVars, strVars, write_stats, g_raised>>

GenNext == Attempt \/ WriteFiles

SpecGen == GenInit /\ [][GenNext]_vars

(* SpecGenBudget: generate from its entry, from the start of the last      *)
(* MaxAttempts passes of its attempt budget, and after a first pass.       *)

(* the trees of range 1 with k operators and pairwise different keys *)
DistinctTrees(k) ==
    {t \in build_expr_with_ops(1, k) :
       t = CHOOSE u \in build_expr_with_ops(1, k) : key(u) = key(t)}

(* the elements of a set of trees as a list of accepted items *)
RECURSIVE ItemsOf(_)
ItemsOf(S) ==
    IF S = {} THEN <<>>
    ELSE LET t == CHOOSE u \in S : TRUE
         IN  <<[expr |-> t, val |-> evaluate(t)]>> \o ItemsOf(S \ {t})

(* every tree of range 1 has been accepted, the rest of the passes so far
   were duplicates with one operator: generate(1, n) with n one more than
   the number of different keys *)
ExhaustedInit ==
    /\ r = 1
    /\ items = ItemsOf(DistinctTrees(1)) \o ItemsOf(DistinctTrees(2))
                  \o ItemsOf(DistinctTrees(3))
    /\ n = Len(items) + 1
    /\ attempts = n * AttemptFactor - MaxAttempts
    /\ op_counts = [k \in 1..3 |->
                      Cardinality(DistinctTrees(k))
                      + (IF k = 1 THEN attempts - Len(items) ELSE 0)]

(* generate(10, 5): four problems accepted, every other pass so far was a
   duplicate with one operator *)
ScenarioItems ==
    ItemsOf({BinOp("+", Num(<<0, 1>>), Num(<<0, 1>>))})
    \o ItemsOf({BinOp("+", Num(<<0, 1>>), Num(<<1, 1>>))})
    \o ItemsOf({BinOp("+", Num(<<1, 1>>), Num(<<1, 1>>))})
    \o ItemsOf({BinOp("*", Num(<<0, 1>>), Num(<<1, 1>>))})

ScenarioInit ==
    /\ r = 10 /\ n = 5
    /\ items = ScenarioItems
    /\ attempts = n * AttemptFactor - MaxAttempts
    /\ op_counts = [k \in 1..3 |-> IF k = 1 THEN attempts ELSE 0]

(* generate(2, 2) after its first pass, which drew two operators and
   accepted 1 - (0 + 1/2) *)
FirstPassInit ==
    /\ r = 2 /\ n = 2
    /\ items = ItemsOf({BinOp("-", Num(<<1, 1>>),
                               BinOp("+", Num(<<0, 1>>), Num(<<1, 2>>)))})
    /\ items[1].expr \in build_expr_with_ops(r, 2)
    /\ attempts = 1
    /\ op_counts = [k \in 1..3 |-> IF k = 2 THEN 1 ELSE 0]

GenLateInit ==
    /\ gpc = "loop"
    /\ ExhaustedInit \/ ScenarioInit \/ FirstPassInit
    /\ seen = {key(items[i].expr) : i \in 1..Len(items)}
    /\ dup_count = attempts - Len(items) /\ zero_div_skips = 0
    /\ exercises = <<>> /\ answers = <<>>
    /\ NumIdle /\ KeyIdle /\ BuildIdle /\ GradeIdle /\ AuxIdle

GenBudgetInit == GenInit \/ GenLateInit

SpecGenBudget == GenBudgetInit /\ [][GenNext]_vars

(* SpecGenCall: generate(r, n, write_stats) from its call, with any         *)
(* integers for r and n and with or without files of an earlier run.       *)

(* the arguments of the call: invalid ones, and valid ones with r * n <= MaxCall *)
CallInputs ==
    {p \in ((-1)..MaxCall) \X ((-1)..MaxCall) :
       p[1] < 1 \/ p[2] < 1 \/ p[1] * p[2] <= MaxCall}

(* a file left by an earlier run: the line "old" *)
OldFile == << <<111, 108, 100>> >>

CallInit ==
    /\ gpc = "entry"
    /\ \E p \in CallInputs : r = p[1] /\ n = p[2]
    /\ write_stats \in BOOLEAN
    /\ \E old \in {<<>>, OldFile} : exercises = old /\ answers = old /\ perf = old
    /\ seen = {} /\ items = <<>>
    /\ attempts = 0 /\ dup_count = 0 /\ zero_div_skips = 0
    /\ op_counts = [k \in 1..3 |-> 0]
    /\ g_raised = "none"
    /\ NumIdle /\ KeyIdle /\ BuildIdle /\ GradeIdle
    /\ EvalIdle /\ LeafIdle /\ ParseIdle /\ StrIdle

(* mutant: the count n is not validated *)
Rejected_range_only(rr, nn) == rr < 1

(* the arguments for which generate raises: r < 1, n < 1 *)
Rejected(rr, nn) == rr < 1 \/ nn < 1

(* if r < 1: raise ValueError; if n < 1: raise ValueError *)
CheckArgs ==
    /\ gpc = "entry"
    /\ IF Rejected(r, n)
       THEN gpc' = "raised" /\ g_raised' = "ValueError"
       ELSE gpc' = "loop" /\ UNCHANGED g_raised
    /\ UNCHANGED <<r, n, seen, items, attempts, dup_count, zero_div_skips,
                   op_counts, exercises, answers, write_stats, perf,
                   numVars, keyVars, buildVars, gradeVars,
                   evalVars, leafVars, parseVars, strVars>>

CallNext == CheckArgs \/ Attempt \/ WriteFiles

SpecGenCall == CallInit /\ [][CallNext]_vars

---------------------------------------------------------------------------
(* SpecGrade: grade(exercise_file, answer_file), one loop pass per step.   *)

(* problem lines fed to grade:
     "3 + 4 ="
     "5 - 8 ="
     "3 ÷ 0 ="
     "( 3 + 4 ="
     "1. 四则运算题目1  1/2 × 2 ="
     "" *)
ProblemSamples ==
    { <<51, 32, 43, 32, 52, 32, 61>>,
      <<53, 32, 45, 32, 56, 32, 61>>,
      <<51, 32, 247, 32, 48, 32, 61>>,
      <<40, 32, 51, 32, 43, 32, 52, 32, 61>>,
      <<49, 46, 32, 22235, 21017, 36816, 31639, 39064, 30446, 49, 32, 32, 49, 47, 50, 32, 215, 32, 50, 32, 61>>,
      <<>> }

(* answer lines fed to grade:
     "7"
     "14/2"
     "-3"
     "x"
     "1. 答案1 1"
     "" *)
AnswerSamples ==
    { <<55>>,
      <<49, 52, 47, 50>>,
      <<45, 51>>,
      <<120>>,
      <<49, 46, 32, 31572, 26696, 49, 32, 49>>,
      <<>> }

CorrectLabel == <<67, 111, 114, 114, 101, 99, 116, 58, 32>>    \* "Correct: "
WrongLabel == <<87, 114, 111, 110, 103, 58, 32>>    \* "Wrong: "

(* the sequences over S of length at most k: the lines of a file *)
RECURSIVE SeqsUpTo(_, _)
SeqsUpTo(S, k) ==
    IF k = 0 THEN {<<>>}
    ELSE LET shorter == SeqsUpTo(S, k - 1)
         IN  shorter \cup {Append(q, e) : q \in shorter, e \in S}

NonBlank(line) == Strip(line) # <<>>

Min(a, b) == IF a <= b THEN a ELSE b

(* list(range(a, b + 1)) *)
RECURSIVE RangeList(_, _)
RangeList(a, b) == IF a > b THEN <<>> ELSE <<a>> \o RangeList(a + 1, b)

(* mutant: the problems beyond the answers are not added *)
Leftover_none(m, total) == <<>>

(* range(m + 1, len(expected) + 1) when len(expected) > m *)
Leftover(m, total) == IF total > m THEN RangeList(m + 1, total) ELSE <<>>

(* mutant: the answer is compared as text with the formatted expected value *)
Verdict_text(answer, exp) ==
    IF Strip(answer) = fraction_to_str(exp) THEN "correct" ELSE "wrong"

(* lines 163-171: the list the index of one compared answer goes to *)
Verdict(answer, exp) ==
    Only({IF ans.err # "none" THEN "wrong"
          ELSE IF ans.val = exp THEN "correct"
          ELSE "wrong" : ans \in {parse_fraction_str(answer)}})

(* ', '.join(str(i) for i in ids) *)
RECURSIVE JoinIds(_)
JoinIds(ids) ==
    IF ids = <<>> THEN <<>>
    ELSE IF Len(ids) = 1 THEN NatStr(ids[1])
    ELSE NatStr(ids[1]) \o <<Ch.comma, Ch.sp>> \o JoinIds(Tail(ids))

(* mutant: the list is written without its parentheses *)
fmt_ids_bare(ids) == JoinIds(ids)

fmt_ids(ids) ==
    IF ids # <<>> THEN <<Ch.lpar>> \o JoinIds(ids) \o <<Ch.rpar>>
    ELSE <<Ch.lpar, Ch.rpar>>

(* the two lines written to Grade.txt *)
GradeReport(correct, wrong) ==
    << CorrectLabel \o NatStr(Len(correct)) \o <<Ch.sp>> \o fmt_ids(correct),
       WrongLabel \o NatStr(Len(wrong)) \o <<Ch.sp>> \o fmt_ids(wrong) >>

GradeInit ==
    /\ qpc = "read"
    /\ exercise_file \in SeqsUpTo(ProblemSamples, MaxProblems)
    /\ answer_file \in SeqsUpTo(AnswerSamples, MaxAnswers)
    /\ exercise_lines = <<>> /\ answer_lines = <<>> /\ expected = <<>>
    /\ correct_ids = <<>> /\ wrong_ids = <<>> /\ qi = 0
    /\ raised = "none" /\ report = <<>>
    /\ NumIdle /\ KeyIdle /\ BuildIdle /\ GenIdle /\ AuxIdle

(* both files are read: blank lines skipped, prefixes stripped *)
ReadFiles ==
    /\ qpc = "read"
    /\ LET ex == SelectSeq(exercise_file, NonBlank)
           an == SelectSeq(answer_file, NonBlank)
       IN  /\ exercise_lines' = [i \in 1..Len(ex) |-> _strip_exercise_prefix(Strip(ex[i]))]
           /\ answer_lines' = [i \in 1..Len(an) |-> _strip_answer_prefix(Strip(an[i]))]
    /\ qpc' = "eval" /\ qi' = 0
    /\ UNCHANGED <<exercise_file, answer_file, expected, correct_ids, wrong_ids,
                   raised, report, numVars, keyVars, buildVars, genVars, auxVars>>

(* for line in exercise_lines: expected.append(_eval_expr_line(line)) *)
EvalLine ==
    /\ qpc = "eval" /\ qi < Len(exercise_lines)
    /\ LET v == _eval_expr_line(exercise_lines[qi + 1])
       IN  IF v.err # "none"
           THEN /\ qpc' = "raised" /\ raised' = v.err
                /\ UNCHANGED <<expected, qi>>
           ELSE /\ expected' = Append(expected, v.val) /\ qi' = qi + 1
                /\ UNCHANGED <<qpc, raised>>
    /\ UNCHANGED <<exercise_file, answer_file, exercise_lines, answer_lines,
                   correct_ids, wrong_ids, report,
                   numVars, keyVars, buildVars, genVars, auxVars>>

(* every problem line is evaluated: the comparison loop starts *)
StartCompare ==
    /\ qpc = "eval" /\ qi = Len(exercise_lines)
    /\ qpc' = "compare" /\ qi' = 0
    /\ UNCHANGED <<exercise_file, answer_file, exercise_lines, answer_lines,
                   expected, correct_ids, wrong_ids, raised, report,
                   numVars, keyVars, buildVars, genVars, auxVars>>

(* for i in range(m) *)
CompareLine ==
    /\ qpc = "compare" /\ qi < Min(Len(expected), Len(answer_lines))
    /\ IF Verdict(answer_lines[qi + 1], expected[qi + 1]) = "correct"
       THEN /\ correct_ids' = Append(correct_ids, qi + 1)
            /\ UNCHANGED wrong_ids
       ELSE /\ wrong_ids' = Append(wrong_ids, qi + 1)
            /\ UNCHANGED correct_ids
    /\ qi' = qi + 1
    /\ UNCHANGED <<qpc, exercise_file, answer_file, exercise_lines, answer_lines,
                   expected, raised, report,
                   numVars, keyVars, buildVars, genVars, auxVars>>

(* the problems left over are wrong; Grade.txt is written *)
WriteGrade ==
    /\ qpc = "compare" /\ qi = Min(Len(expected), Len(answer_lines))
    /\ wrong_ids' = wrong_ids \o Leftover(qi, Len(expected))
    /\ report' = GradeReport(correct_ids, wrong_ids')
    /\ qpc' = "done"
    /\ UNCHANGED <<exercise_file, answer_file, exercise_lines, answer_lines,
                   expected, correct_ids, qi, raised,
                   numVars, keyVars, buildVars, genVars, auxVars>>

GradeNext == ReadFiles \/ EvalLine \/ StartCompare \/ CompareLine \/ WriteGrade

SpecGrade == GradeInit /\ [][GradeNext]_vars

---------------------------------------------------------------------------
(* SpecEval: _eval_expr_line on one well-formed problem line: _to_tokens,  *)
(* then _shunting_yard, then _eval_rpn.                                    *)

(* the literals of the problem lines: "5", "8", "1’1/2" *)
EvalLiterals ==
    { [txt |-> <<53>>, val |-> <<5, 1>>],
      [txt |-> <<56>>, val |-> <<8, 1>>],
      [txt |-> <<49, 8217, 49, 47, 50>>, val |-> <<3, 2>>] }

(* the infix expressions with exactly k operators, as trees *)
RECURSIVE EvalTreesOf(_)
EvalTreesOf(k) ==
    IF k = 0 THEN {[kind |-> "Lit", txt |-> l.txt, val |-> l.val] : l \in EvalLiterals}
    ELSE UNION {{[kind |-> "Op", op |-> o, left |-> a, right |-> b] :
                   o \in OpSet, a \in EvalTreesOf(i), b \in EvalTreesOf(k - 1 - i)} :
                i \in 0..(k - 1)}

(* the expressions with 1..m operators *)
EvalTrees(m) == UNION {EvalTreesOf(k) : k \in 1..m}

(* the operator glyph of a problem line *)
Glyph(o) ==
    CASE o = "+" -> Ch.plus [] o = "-" -> Ch.minus
      [] o = "*" -> Ch.times [] o = "/" -> Ch.divide

(* the tree written in infix, tokens separated by one space; full: every
   compound operand is parenthesised; otherwise an operand is parenthesised
   only where the standard reading needs it (a left operand of lower
   precedence, a right operand of lower or equal precedence) *)
RECURSIVE Infix(_, _)
Infix(t, full) ==
    IF t.kind = "Lit" THEN t.txt
    ELSE LET wrapL == t.left.kind = "Op" /\ (full \/ PREC[t.left.op] < PREC[t.op])
             wrapR == t.right.kind = "Op" /\ (full \/ PREC[t.right.op] <= PREC[t.op])
             ls == Infix(t.left, full)
             rs == Infix(t.right, full)
         IN  (IF wrapL THEN Paren(ls) ELSE ls) \o <<Ch.sp, Glyph(t.op), Ch.sp>>
             \o (IF wrapR THEN Paren(rs) ELSE rs)

(* the value of the standard reading, or the error of a zero divisor *)
RECURSIVE Reading(_)
Reading(t) ==
    IF t.kind = "Lit" THEN Ok(t.val)
    ELSE \* operands first, left to right
      Only({ IF a.err # "none" THEN a
             ELSE IF b.err # "none" THEN b
             ELSE CASE t.op = "+" -> Ok(FAdd(a.val, b.val))
                    [] t.op = "-" -> Ok(FSub(a.val, b.val))
                    [] t.op = "*" -> Ok(FMul(a.val, b.val))
                    [] t.op = "/" -> IF b.val = FZero THEN Err("ZeroDivisionError")
                                     ELSE Ok(FDiv(a.val, b.val)) :
               a \in {Reading(t.left)}, b \in {Reading(t.right)} })

(* the problem line written from a tree *)
ProblemLine(t, full) == Infix(t, full) \o <<Ch.sp, Ch.eq>>

EvalInit ==
    /\ epc = "tokens"
    /\ e_tree \in EvalTrees(MaxEvalOps)
    /\ \E full \in BOOLEAN : e_line = ProblemLine(e_tree, full)
    /\ e_tokens = <<>> /\ e_rpn = <<>> /\ e_val = Err("pending")
    /\ NumIdle /\ KeyIdle /\ BuildIdle /\ GenIdle /\ GradeIdle
    /\ LeafIdle /\ ParseIdle /\ StrIdle /\ CallIdle

(* tokens = _to_tokens(expr_line) *)
Tokenize ==
    /\ epc = "tokens"
    /\ e_tokens' = _to_tokens(e_line)
    /\ epc' = "shunt"
    /\ UNCHANGED <<e_tree, e_line, e_rpn, e_val, numVars, keyVars, buildVars, genVars,
                   gradeVars, leafVars, parseVars, strVars, callVars>>

(* rpn = _shunting_yard(tokens) *)
ShuntingYard ==
    /\ epc = "shunt"
    /\ \E y \in {_shunting_yard(e_tokens)} :
         IF y.err # "none"
         THEN epc' = "raised" /\ e_val' = Err(y.err) /\ UNCHANGED e_rpn
         ELSE epc' = "rpn" /\ e_rpn' = y.rpn /\ UNCHANGED e_val
    /\ UNCHANGED <<e_tree, e_line, e_tokens, numVars, keyVars, buildVars, genVars,
                   gradeVars, leafVars, parseVars, strVars, callVars>>

(* return _eval_rpn(rpn) *)
EvalRpn ==
    /\ epc = "rpn"
    /\ \E v \in {_eval_rpn(e_rpn)} :
         /\ e_val' = v
         /\ epc' = IF v.err # "none" THEN "raised" ELSE "done"
    /\ UNCHANGED <<e_tree, e_line, e_tokens, e_rpn, numVars, keyVars, buildVars, genVars,
                   gradeVars, leafVars, parseVars, strVars, callVars>>

EvalNext == Tokenize \/ ShuntingYard \/ EvalRpn

SpecEval == EvalInit /\ [][EvalNext]_vars

(* SpecLine: _eval_expr_line on any line of up to MaxLineTokens tokens,    *)
(* well-formed or not.                                                     *)

(* the tokens of the lines: "3", "4", "+", "(", ")", "x" *)
LineTokens == {<<51>>, <<52>>, <<Ch.plus>>, <<Ch.lpar>>, <<Ch.rpar>>, <<Ch.x>>}

(* ' '.join(tokens) *)
RECURSIVE JoinTokens(_)
JoinTokens(tokens) ==
    IF tokens = <<>> THEN <<>>
    ELSE IF Len(tokens) = 1 THEN tokens[1]
    ELSE tokens[1] \o <<Ch.sp>> \o JoinTokens(Tail(tokens))

LineInit ==
    /\ epc = "tokens" /\ e_tree = <<>>
    /\ \E tokens \in SeqsUpTo(LineTokens, MaxLineTokens) :
         e_line = JoinTokens(Append(tokens, <<Ch.eq>>))
    /\ e_tokens = <<>> /\ e_rpn = <<>> /\ e_val = Err("pending")
    /\ NumIdle /\ KeyIdle /\ BuildIdle /\ GenIdle /\ GradeIdle
    /\ LeafIdle /\ ParseIdle /\ StrIdle /\ CallIdle

SpecLine == LineInit /\ [][EvalNext]_vars

---------------------------------------------------------------------------
(* SpecLeaf: random_leaf(r) with the draws of make_natural,                *)
(* make_proper_fraction and make_mixed_fraction.                           *)

LeafInit ==
    /\ lpc = "choose" /\ l_r \in 1..MaxLeafR
    /\ l_kind = "nat" /\ l_int = 0 /\ l_den = 1 /\ l_num = 0 /\ l_val = FZero
    /\ NumIdle /\ KeyIdle /\ BuildIdle /\ GenIdle /\ GradeIdle
    /\ EvalIdle /\ ParseIdle /\ StrIdle /\ CallIdle

(* kind = random.choice(choices) *)
ChooseKind ==
    /\ lpc = "choose"
    /\ l_kind' \in (IF l_r >= 2 THEN {"nat", "frac", "mixed"} ELSE {"nat"})
    /\ lpc' = "draw"
    /\ UNCHANGED <<l_r, l_int, l_den, l_num, l_val, numVars, keyVars, buildVars,
                   genVars, gradeVars, evalVars, parseVars,
                   strVars, callVars>>

(* make_natural(r), also where the other kinds fall back to it *)
DrawNatural ==
    /\ l_int' \in NaturalDraws(l_r)
    /\ l_val' = <<l_int', 1>>
    /\ UNCHANGED <<l_den, l_num>>

(* kind == 'nat' *)
LeafNatural ==
    /\ lpc = "draw" /\ l_kind = "nat"
    /\ DrawNatural
    /\ lpc' = "done"
    /\ UNCHANGED <<l_r, l_kind, numVars, keyVars, buildVars,
                   genVars, gradeVars, evalVars, parseVars,
                   strVars, callVars>>

(* kind == 'frac': make_proper_fraction(r), a natural when it gives 0 *)
LeafProper ==
    /\ lpc = "draw" /\ l_kind = "frac"
    /\ IF l_r < 2 THEN DrawNatural
       ELSE /\ l_den' \in DenDraws(l_r)
            /\ l_num' \in NumDraws(l_den')
            /\ l_val' = Fraction(l_num', l_den')
            /\ UNCHANGED l_int
    /\ lpc' = "done"
    /\ UNCHANGED <<l_r, l_kind, numVars, keyVars, buildVars,
                   genVars, gradeVars, evalVars, parseVars,
                   strVars, callVars>>

(* kind == 'mixed': make_mixed_fraction(r) *)
LeafMixed ==
    /\ lpc = "draw" /\ l_kind = "mixed"
    /\ IF l_r < 2 THEN DrawNatural
       ELSE /\ l_int' \in NaturalDraws(l_r)
            /\ l_den' \in DenDraws(l_r)
            /\ l_num' \in NumDraws(l_den')
            /\ l_val' = FAdd(<<l_int', 1>>, Fraction(l_num', l_den'))
    /\ lpc' = "done"
    /\ UNCHANGED <<l_r, l_kind, numVars, keyVars, buildVars,
                   genVars, gradeVars, evalVars, parseVars,
                   strVars, callVars>>

LeafNext == ChooseKind \/ LeafNatural \/ LeafProper \/ LeafMixed

SpecLeaf == LeafInit /\ [][LeafNext]_vars

---------------------------------------------------------------------------
(* SpecParse: parse_fraction_str on one literal.                           *)

(* the parts the literals are put together from: "", "-"; "0", "7", "x";
   "1", "2"; "0", "2", "3", "x"; "2", "x"; "’", "'" *)
SignSamples == {<<>>, <<Ch.minus>>}
IntegerSamples == {<<48>>, <<55>>, <<120>>}
NumeratorSamples == {<<49>>, <<50>>}
DenominatorSamples == {<<48>>, <<50>>, <<51>>, <<120>>}
WholeSamples == {<<50>>, <<120>>}
SeparatorSamples == {<<APOSTROPHE>>, <<Ch.apos>>}

RatioSamples ==
    {a \o <<Ch.slash>> \o b : a \in NumeratorSamples, b \in DenominatorSamples}

(* literals of other shapes: "", "--3", "+3", "1’-1/2", "3/4/5", "1/-2",
   "-", " 7 " *)
OtherSamples ==
    { <<>>,
      <<45, 45, 51>>,
      <<43, 51>>,
      <<49, 8217, 45, 49, 47, 50>>,
      <<51, 47, 52, 47, 53>>,
      <<49, 47, 45, 50>>,
      <<45>>,
      <<32, 55, 32>> }

LiteralSamples ==
    {sg \o body : sg \in SignSamples,
                  body \in IntegerSamples \cup RatioSamples
                           \cup {w \o sep \o f : w \in WholeSamples,
                                                 sep \in SeparatorSamples,
                                                 f \in RatioSamples}}
    \cup OtherSamples

ParseInit ==
    /\ ppc = "parse" /\ p_text \in LiteralSamples /\ p_out = Err("pending")
    /\ NumIdle /\ KeyIdle /\ BuildIdle /\ GenIdle /\ GradeIdle
    /\ EvalIdle /\ LeafIdle /\ StrIdle /\ CallIdle

(* parse_fraction_str(s): the value returned or the exception raised *)
ParseLiteral ==
    /\ ppc = "parse"
    /\ p_out' = parse_fraction_str(p_text)
    /\ ppc' = "done"
    /\ UNCHANGED <<p_text, numVars, keyVars, buildVars, genVars, gradeVars,
                   evalVars, leafVars, strVars, callVars>>

ParseNext == ParseLiteral

SpecParse == ParseInit /\ [][ParseNext]_vars

---------------------------------------------------------------------------
(* SpecStr: BinOp.to_str on one tree.                                      *)

(* two compound operands under one operator *)
StrTrees3 == {BinOp(o, a, b) : o \in OpSet, a \in KeyTrees1, b \in KeyTrees1}

(* the trees that are rendered: up to two operators, and three operators
   with both operands compound *)
StrTrees == KeyTrees \cup StrTrees3

StrInit ==
    /\ spc = "start" /\ s_tree \in StrTrees /\ s_text = <<>>
    /\ NumIdle /\ KeyIdle /\ BuildIdle /\ GenIdle /\ GradeIdle
    /\ EvalIdle /\ LeafIdle /\ ParseIdle /\ CallIdle

(* expr.to_str() *)
Render ==
    /\ spc = "start"
    /\ s_text' = to_str(s_tree)
    /\ spc' = "done"
    /\ UNCHANGED <<s_tree, numVars, keyVars, buildVars, genVars, gradeVars,
                   evalVars, leafVars, parseVars, callVars>>

StrNext == Render

SpecStr == StrInit /\ [][StrNext]_vars

---------------------------------------------------------------------------
(* Claims.                                                                 *)

\* C6: for every Rational x (positive, zero or negative; integer, proper
\* fraction or mixed number), parse_fraction_str(fraction_to_str(x)) = x.
C6_RoundTrip == npc = "done" => parsed = Ok(x)

C6_Witness ==
    /\ npc = "done" /\ x[1] < 0 /\ x[2] > 1 /\ -x[1] > x[2]
    /\ Contains(text, APOSTROPHE) /\ parsed = Ok(x)

\* C7: key(A + B) = key(B + A) and key(A * B) = key(B * A) for all trees A
\* and B; when A and B evaluate to different values, key(A - B) # key(B - A)
\* and key(A / B) # key(B / A).
C7_KeyCommutes ==
    kpc = "done" =>
      /\ key(BinOp("+", treeA, treeB)) = key(BinOp("+", treeB, treeA))
      /\ key(BinOp("*", treeA, treeB)) = key(BinOp("*", treeB, treeA))
      /\ (~Raises(treeA) /\ ~Raises(treeB) /\ evaluate(treeA) # evaluate(treeB))
           => /\ key(BinOp("-", treeA, treeB)) # key(BinOp("-", treeB, treeA))
              /\ key(BinOp("/", treeA, treeB)) # key(BinOp("/", treeB, treeA))

C7_Witness ==
    /\ kpc = "done" /\ ~IsNum(treeA) /\ ~IsNum(treeB)
    /\ ~Raises(treeA) /\ ~Raises(treeB) /\ evaluate(treeA) # evaluate(treeB)
    /\ keyA # keyB /\ StrLe(keyB, keyA)
    /\ key(BinOp("+", treeA, treeB)) = key(BinOp("+", treeB, treeA))
    /\ key(BinOp("-", treeA, treeB)) # key(BinOp("-", treeB, treeA))

(* b is a with the operands of some of its '+' and '*' nodes swapped *)
RECURSIVE SwapEquiv(_, _)
SwapEquiv(a, b) ==
    IF IsNum(a) \/ IsNum(b)
    THEN IsNum(a) /\ IsNum(b) /\ a.value = b.value
    ELSE /\ a.op = b.op
         /\ \/ SwapEquiv(a.left, b.left) /\ SwapEquiv(a.right, b.right)
            \/ /\ a.op \in {"+", "*"}
               /\ SwapEquiv(a.left, b.right) /\ SwapEquiv(a.right, b.left)

\* C8: two trees have the same canonical key if and only if one is the other
\* with the operands of '+' or '*' nodes swapped, at any depth; a different
\* operator, leaf value, operand order under '-' or '/', or grouping gives a
\* different key.
C8_KeyIffSwap ==
    kpc = "done" => ((keyA = keyB) <=> SwapEquiv(treeA, treeB))

C8_Witness ==
    /\ kpc = "done" /\ treeA # treeB /\ op_count(treeA) = 2
    /\ keyA = keyB /\ SwapEquiv(treeA, treeB)

(* every '-' and '/' node of t, at any depth, meets its acceptance constraint *)
RECURSIVE Constrained(_)
Constrained(t) ==
    IF IsNum(t) THEN TRUE
    ELSE /\ Constrained(t.left) /\ Constrained(t.right)
         /\ t.op = "-" => FLe(evaluate(t.right), evaluate(t.left))
         /\ t.op = "/" => /\ evaluate(t.right) # FZero
                          /\ FLt(FZero, FDiv(evaluate(t.left), evaluate(t.right)))
                          /\ FLt(FDiv(evaluate(t.left), evaluate(t.right)), FOne)

\* C3: in every tree build_expr_with_ops builds or returns, also through the
\* fallbacks after 100 and 50 failed passes, every '-' node at any depth has
\* left >= right and every '/' node has right # 0 and 0 < left/right < 1.
C3_NodesConstrained == bpc \in {"extend", "done"} => Constrained(node)

C3_Witness ==
    /\ bpc = "done" /\ n_ops = 3 /\ op_count(node) = 3
    /\ node.op = "/" /\ ~IsNum(node.right) /\ node.right.op = "-"
    /\ ~IsNum(node.right.left) /\ Constrained(node)

\* C1: for every problem generate accepts, the grader's evaluation of the
\* written problem line (_to_tokens, _shunting_yard, _eval_rpn) is the value
\* tree.evaluate() written to the answer line.
C1_GraderAgrees ==
    gpc = "done" =>
      \A i \in 1..Len(items) : _eval_expr_line(exercises[i]) = Ok(items[i].val)

\* C2: at every point of one generate call the canonical keys of the
\* accepted items are pairwise distinct and each of them is in the seen-set.
C2_KeysDistinct ==
    gpc \in {"loop", "done"} =>
      /\ \A i, j \in 1..Len(items) :
           i # j => key(items[i].expr) # key(items[j].expr)
      /\ \A i \in 1..Len(items) : key(items[i].expr) \in seen

C2_Witness ==
    /\ gpc = "done" /\ Len(items) = 2 /\ dup_count > 0
    /\ key(items[1].expr) # key(items[2].expr)
    /\ Cardinality(seen) = 2


\* C4: a malformed problem line (unknown token, unbalanced parenthesis,
\* wrong postfix shape) fails that line only: grade never stops with the
\* ValueError of such a line, it goes on to write the two-line report.
C4_MalformedLineIsLocal == ~(qpc = "raised" /\ raised = "ValueError")

\* C5: a problem line whose evaluation meets a zero divisor fails that line
\* only: grade never stops with its ZeroDivisionError, the remaining lines
\* are still graded and reported.
C5_ZeroDivisorIsLocal == ~(qpc = "raised" /\ raised = "ZeroDivisionError")

(* the indices held by a list of ids *)
Ids(ids) == {ids[i] : i \in DOMAIN ids}

\* C9: every compared index i (up to min(problems, answers)) is under
\* Correct if and only if the i-th answer parses with parse_fraction_str and
\* its value equals the i-th expected value; an answer that fails to parse
\* puts i under Wrong, and grading goes on.
C9_CorrectIffValue ==
    qpc \in {"compare", "done"} =>
      \A i \in 1..qi :
        \A ans \in {parse_fraction_str(answer_lines[i])} :
          /\ _eval_expr_line(exercise_lines[i]) = Ok(expected[i])
          /\ i \in Ids(correct_ids) <=> (ans.err = "none" /\ ans.val = expected[i])
          /\ ans.err # "none" => i \in Ids(wrong_ids)
          /\ i \in Ids(correct_ids) \/ i \in Ids(wrong_ids)

C9_Witness ==
    /\ qpc = "done" /\ Len(exercise_lines) = 2
    /\ exercise_lines[1] = <<51, 32, 43, 32, 52, 32, 61>>      \* "3 + 4 ="
    /\ answer_lines = << <<49, 52, 47, 50>>, <<120>> >>        \* "14/2", "x"
    /\ Len(expected) = 2
    /\ correct_ids = <<1>> /\ wrong_ids = <<2>>

Ascending(ids) == \A i, j \in DOMAIN ids : i < j => ids[i] < ids[j]

(* the ids read back from "i1, i2, ..." ; <<0>> when the text has another shape *)
RECURSIVE ReadIds(_)
ReadIds(s) ==
    IF s = <<>> THEN <<>>
    ELSE \* one number, then the end or ", " and at least one more number
      IF DigitRun(s) = 0 THEN <<0>>
      ELSE IF DigitRun(s) = Len(s) THEN <<DigitsVal(s)>>
      ELSE IF /\ Len(s) >= DigitRun(s) + 3
              /\ s[DigitRun(s) + 1] = Ch.comma /\ s[DigitRun(s) + 2] = Ch.sp
      THEN <<DigitsVal(SubSeq(s, 1, DigitRun(s)))>>
           \o ReadIds(Drop(s, DigitRun(s) + 2))
      ELSE <<0>>

(* a report line read back as "<label><count> (<ids>)" *)
Unreadable == [ok |-> FALSE, count |-> 0, ids |-> <<>>]
ReadRest(rest, k) ==
    IF /\ k >= 1 /\ Len(rest) >= k + 3
       /\ rest[k + 1] = Ch.sp /\ rest[k + 2] = Ch.lpar /\ rest[Len(rest)] = Ch.rpar
    THEN [ok |-> TRUE, count |-> DigitsVal(SubSeq(rest, 1, k)),
          ids |-> ReadIds(SubSeq(rest, k + 3, Len(rest) - 1))]
    ELSE Unreadable
ReadLine(line, label) ==
    IF ~StartsWith(line, label) THEN Unreadable
    ELSE Only({ReadRest(rest, DigitRun(rest)) : rest \in {Drop(line, Len(label))}})

\* C11: the report is exactly two lines, "Correct: <count> (<ids>)" then
\* "Wrong: <count> (<ids>)"; each count is the length of its list, each list
\* is strictly ascending, an empty list is written "()", and empty problem
\* and answer files give "Correct: 0 ()" and "Wrong: 0 ()".
C11_ReportShape ==
    qpc = "done" =>
      /\ Len(report) = 2
      /\ ReadLine(report[1], CorrectLabel)
           = [ok |-> TRUE, count |-> Len(correct_ids), ids |-> correct_ids]
      /\ ReadLine(report[2], WrongLabel)
           = [ok |-> TRUE, count |-> Len(wrong_ids), ids |-> wrong_ids]
      /\ Ascending(correct_ids) /\ Ascending(wrong_ids)
      /\ \A i \in Ids(correct_ids) \cup Ids(wrong_ids) : i >= 1
      /\ correct_ids = <<>> =>
           report[1] = CorrectLabel \o <<Ch.zero, Ch.sp, Ch.lpar, Ch.rpar>>
      /\ wrong_ids = <<>> =>
           report[2] = WrongLabel \o <<Ch.zero, Ch.sp, Ch.lpar, Ch.rpar>>
      /\ (exercise_file = <<>> /\ answer_file = <<>>) =>
           report = << CorrectLabel \o <<48, 32, 40, 41>>,
                       WrongLabel \o <<48, 32, 40, 41>> >>

(* "Correct: 2 (1, 2)" and "Wrong: 0 ()" *)
C11_Witness ==
    /\ qpc = "done"
    /\ correct_ids = <<1, 2>> /\ wrong_ids = <<>>
    /\ report = << CorrectLabel \o <<50, 32, 40, 49, 44, 32, 50, 41>>,
                   WrongLabel \o <<48, 32, 40, 41>> >>

\* C12: for every well-formed infix problem line over rational literals,
\* "+", "-", "×", "÷" and parentheses, _eval_expr_line returns the value of
\* the standard reading: "×" and "÷" bind tighter than "+" and "-", equal
\* precedence associates to the left, parentheses override both.
C12_StandardReading == epc \in {"done", "raised"} => e_val = Reading(e_tree)

(* "8 - 5 × 1’1/2 =" reads as 8 - (5 × 3/2) = 1/2 *)
C12_Witness ==
    /\ epc = "done"
    /\ e_line = <<56, 32, 45, 32, 53, 32, 215, 32, 49, 8217, 49, 47, 50, 32, 61>>
    /\ e_val = Ok(<<1, 2>>)

\* C13: the grader is constraint-agnostic: a well-formed subtraction whose
\* left operand is smaller than its right operand is evaluated without
\* raising, to the exact negative difference; "5 - 8 =" evaluates to -3.
C13_NegativeDifference ==
    (epc \in {"done", "raised"} /\ e_tree.op = "-") =>
      \A a \in {Reading(e_tree.left)}, b \in {Reading(e_tree.right)} :
        (a.err = "none" /\ b.err = "none") =>
          /\ epc = "done" /\ e_val.err = "none"
          /\ e_val.val[1] * a.val[2] * b.val[2]
               = (a.val[1] * b.val[2] - b.val[1] * a.val[2]) * e_val.val[2]
          /\ a.val[1] * b.val[2] < b.val[1] * a.val[2] => e_val.val[1] < 0
          /\ e_line = <<53, 32, 45, 32, 56, 32, 61>> => e_val = Ok(<<-3, 1>>)

(* "5 - 8 =" has been evaluated to -3 *)
C13_Witness ==
    /\ epc = "done"
    /\ e_line = <<53, 32, 45, 32, 56, 32, 61>>
    /\ e_val = Ok(<<-3, 1>>)

\* C14: the generation loop makes at most 200 * n attempts and never accepts
\* more than n problems; when it has ended, exactly n problems are accepted
\* or exactly 200 * n attempts were made, and the batch that was accepted,
\* also a partial one, is written: one problem line and one answer line per
\* accepted problem.
C14_LoopBudget ==
    /\ gpc \in {"loop", "done"} =>
         /\ attempts <= n * AttemptFactor /\ Len(items) <= n
         /\ attempts = dup_count + zero_div_skips + Len(items)
    /\ gpc = "done" =>
         /\ Len(items) = n \/ attempts = n * AttemptFactor
         /\ Len(exercises) = Len(items) /\ Len(answers) = Len(items)

(* the budget is used up with fewer than n problems, which are written *)
C14_Witness ==
    /\ gpc = "done" /\ attempts = n * AttemptFactor
    /\ Len(items) > 0 /\ Len(items) < n
    /\ Len(exercises) = Len(items) /\ Len(answers) = Len(items)

\* C15 as stated: generate(r=10, n=5) ends with exactly 5 accepted problems,
\* 5 problem lines and 5 answer lines, whatever the random choices.
C15_AlwaysFive ==
    (gpc = "done" /\ r = 10 /\ n = 5) =>
      Len(items) = 5 /\ Len(exercises) = 5 /\ Len(answers) = 5

\* C15 as amended: generate(r=10, n=5) ends with at most 5 accepted
\* problems and as many problem lines and answer lines; it ends with fewer
\* than 5 only when all 1000 attempts of its budget were made.
C15_FiveOrBudget ==
    (gpc = "done" /\ r = 10 /\ n = 5) =>
      /\ Len(items) <= 5
      /\ Len(exercises) = Len(items) /\ Len(answers) = Len(items)
      /\ Len(items) < 5 => attempts = 5 * AttemptFactor
      /\ Len(items) = 5 => attempts <= 5 * AttemptFactor

(* the fifth problem is accepted in the last passes of the budget *)
C15_Witness ==
    /\ gpc = "done" /\ r = 10 /\ n = 5
    /\ Len(items) = 5 /\ Len(exercises) = 5 /\ Len(answers) = 5
    /\ dup_count > 0

\* C16: the tree build_expr_with_ops(r, k) returns has op_count() = k for
\* k in 1..3, whichever retry or fallback path built it; while it is built,
\* the tree has one operator per finished pass.
C16_OpCountExact ==
    /\ bpc = "extend" => op_count(node) = slot /\ slot <= n_ops - 1
    /\ bpc = "done" => op_count(node) = n_ops /\ n_ops \in 1..3

(* a tree of three operators has been returned *)
C16_Witness ==
    /\ bpc = "done" /\ n_ops = 3 /\ slot = 2
    /\ ~IsNum(node) /\ op_count(node) = 3
    /\ op_count(node.left) + op_count(node.right) = 2

\* C17: for every r >= 2, make_proper_fraction(r) draws a denominator d
\* with 2 <= d <= r - 1 and a numerator m with 1 <= m <= d - 1: the result
\* is strictly between 0 and 1 and its denominator never exceeds r - 1.
C17_ProperFractionDraws ==
    (lpc = "done" /\ l_kind \in {"frac", "mixed"} /\ l_r >= 2) =>
      /\ 2 <= l_den /\ l_den <= l_r - 1
      /\ 1 <= l_num /\ l_num <= l_den - 1
      /\ l_kind = "frac" =>
           /\ 0 < l_val[1] /\ l_val[1] < l_val[2]
           /\ l_val[2] <= l_r - 1

\* C18: every leaf random_leaf(r) produces, for every r >= 1, has a value v
\* with 0 <= v < r, whether natural, proper fraction or mixed; for r < 2 the
\* leaf is a natural number.
C18_LeafBelowR ==
    lpc = "done" =>
      /\ 0 <= l_val[1] /\ l_val[1] < l_r * l_val[2]
      /\ Num(l_val) \in random_leaf(l_r)
      /\ l_r < 2 => l_kind = "nat" /\ l_val[2] = 1

(* the mixed leaf 2’1/2 for r = 3 *)
C18_Witness ==
    /\ lpc = "done" /\ l_r = 3 /\ l_kind = "mixed"
    /\ l_int = 2 /\ l_num = 1 /\ l_den = 2 /\ l_val = <<5, 2>>

(* a decimal numeral without sign and without leading zeros, of value k *)
Numeral(s, k) ==
    /\ s # <<>> /\ AllDigits(s)
    /\ Len(s) > 1 => Head(s) # Ch.zero
    /\ DigitsVal(s) = k

(* s is "a/b" with the numerals of a and b *)
RatioText(s, a, b) ==
    /\ Count(s, Ch.slash) = 1
    /\ Numeral(Before(s, Ch.slash), a) /\ Numeral(After(s, Ch.slash), b)

\* C19: fraction_to_str(x) has exactly one of three shapes: the integer "A"
\* when the denominator is 1; "a/b" when 0 < |x| < 1; otherwise "A’a/b" with
\* A >= 1 and a/b the remainder in lowest terms with 0 < a < b; the text
\* starts with "-" exactly when x < 0.
C19_ThreeShapes ==
    npc \in {"parse", "done"} =>
      \A body \in {IF text # <<>> /\ Head(text) = Ch.minus THEN Tail(text) ELSE text} :
        \A ax \in {Abs(x[1])} :
          /\ (text # <<>> /\ Head(text) = Ch.minus) <=> x[1] < 0
          /\ x[2] = 1 =>
               /\ Numeral(body, ax)
          /\ (x[2] # 1 /\ ax < x[2]) =>
               /\ ~Contains(body, APOSTROPHE)
               /\ RatioText(body, ax, x[2])
          /\ (x[2] # 1 /\ ax > x[2]) =>
               /\ Count(body, APOSTROPHE) = 1
               /\ \A A \in {ax \div x[2]}, a \in {ax % x[2]} :
                    /\ A >= 1 /\ 0 < a /\ a < x[2] /\ GCD(a, x[2]) = 1
                    /\ Numeral(Before(body, APOSTROPHE), A)
                    /\ RatioText(After(body, APOSTROPHE), a, x[2])

(* -7/2 is written "-3’1/2" *)
C19_Witness ==
    /\ npc = "done" /\ x = <<-7, 2>>
    /\ text = <<45, 51, 8217, 49, 47, 50>>

(* the literal has a recognized shape, "a/b" or "A<sep>a/b" with an optional
   "-", and its denominator is zero *)
ZeroDenominator(s) ==
    \E sg \in SignSamples, a \in NumeratorSamples :
      \/ s = sg \o a \o <<Ch.slash, Ch.zero>>
      \/ \E sep \in SeparatorSamples :
           s = sg \o <<50>> \o sep \o a \o <<Ch.slash, Ch.zero>>

\* C20: parse_fraction_str fails with the format error (ValueError), the
\* error of any other unrecognized literal such as "x", when the text has a
\* recognized shape but a zero denominator ("1/0", "2’1/0").
C20_ZeroDenominatorIsFormatError ==
    (ppc = "done" /\ ZeroDenominator(p_text)) =>
      /\ p_out.err = "ValueError"
      /\ p_out = parse_fraction_str(<<Ch.x>>)

(* an unsigned integer: decimal digits only *)
Unsigned(s) == AllDigits(s)

(* "a/b" with a and b unsigned integers *)
UnsignedRatio(s) ==
    /\ Count(s, Ch.slash) = 1
    /\ Unsigned(Before(s, Ch.slash)) /\ Unsigned(After(s, Ch.slash))

(* an unsigned integer, "a/b", or "A<sep>a/b" with one separator *)
UnsignedShape(s) ==
    \/ Unsigned(s)
    \/ UnsignedRatio(s)
    \/ \E sep \in {APOSTROPHE, Ch.apos} :
         /\ Count(s, sep) = 1
         /\ Unsigned(Before(s, sep)) /\ UnsignedRatio(After(s, sep))

(* one optional leading "-", then one of the three shapes *)
Recognized(s) ==
    IF s # <<>> /\ Head(s) = Ch.minus THEN UnsignedShape(Tail(s))
    ELSE UnsignedShape(s)

\* C21: parse_fraction_str accepts a text only if it is one optional leading
\* "-" followed by an unsigned integer, "a/b" or "A<sep>a/b" (sep the
\* canonical separator or a plain apostrophe; A, a, b unsigned integers);
\* every other text ("--3", "1’-1/2", "3/4/5", "") fails with ValueError.
C21_OnlyRecognizedAccepted ==
    ppc = "done" =>
      /\ p_out.err = "none" => Recognized(p_text)
      /\ ~Recognized(p_text) => p_out.err = "ValueError"

(* the child is an operator node whose operator binds less than the
   parent's, or repeats the parent's '-' or '/' *)
WrapRule(child, parent_op) ==
    /\ child.kind = "BinOp"
    /\ \/ PREC[child.op] < PREC[parent_op]
       \/ parent_op \in {"-", "/"} /\ child.op = parent_op

(* the text of a tree whose operands are wrapped by WrapRule, left and
   right alike *)
RECURSIVE Wrapped(_)
Wrapped(t) ==
    IF t.kind = "Num" THEN fraction_to_str(t.value)
    ELSE LET ls == Wrapped(t.left)
             rs == Wrapped(t.right)
         IN  (IF WrapRule(t.left, t.op) THEN <<Ch.lpar, Ch.sp>> \o ls \o <<Ch.sp, Ch.rpar>>
              ELSE ls)
             \o <<Ch.sp, symbol[t.op], Ch.sp>>
             \o (IF WrapRule(t.right, t.op) THEN <<Ch.lpar, Ch.sp>> \o rs \o <<Ch.sp, Ch.rpar>>
                 ELSE rs)

\* C22: BinOp.to_str wraps a child in parentheses if and only if the child
\* is an operator node and either its operator has strictly lower precedence
\* than the parent's, or the parent is '-' or '/' and the child has the same
\* operator; left and right children alike; a leaf is never parenthesised.
C22_ParenRule ==
    spc = "done" =>
      /\ s_text = Wrapped(s_tree)
      /\ s_tree.kind = "BinOp" =>
           /\ (s_text[1] = Ch.lpar) <=> WrapRule(s_tree.left, s_tree.op)
           /\ (s_text[Len(s_text)] = Ch.rpar) <=> WrapRule(s_tree.right, s_tree.op)

(* "( 0 - 1 ) - ( 0 - 1 )": both operands repeat the parent's '-' *)
C22_Witness ==
    /\ spc = "done"
    /\ s_tree = BinOp("-", BinOp("-", Num(<<0, 1>>), Num(<<1, 1>>)),
                          BinOp("-", Num(<<0, 1>>), Num(<<1, 1>>)))
    /\ s_text = <<40, 32, 48, 32, 45, 32, 49, 32, 41, 32, 45, 32,
                  40, 32, 48, 32, 45, 32, 49, 32, 41>>

\* C23: generate(r, n) with r < 1 or n < 1 raises ValueError before any
\* generation attempt and without creating or overwriting Exercises.txt,
\* Answers.txt or Perf.txt; r and n are never clamped into range.
C23_InvalidArgsRaise ==
    /\ []((gpc \in {"entry", "raised", "loop", "done"} /\ (r < 1 \/ n < 1)) =>
            /\ gpc \in {"entry", "raised"}
            /\ gpc = "raised" <=> g_raised = "ValueError"
            /\ attempts = 0 /\ items = <<>> /\ seen = {}
            /\ op_counts = [k \in 1..3 |-> 0])
    /\ [][(gpc = "entry" /\ (r < 1 \/ n < 1)) =>
            /\ gpc' = "raised" /\ g_raised' = "ValueError"
            /\ r' = r /\ n' = n
            /\ exercises' = exercises /\ answers' = answers /\ perf' = perf]_vars

(* generate(0, 1, write_stats=True) has raised; the files of the earlier run
   are as they were *)
C23_Witness ==
    /\ gpc = "raised" /\ g_raised = "ValueError" /\ r = 0 /\ n = 1 /\ write_stats
    /\ exercises = OldFile /\ answers = OldFile /\ perf = OldFile
    /\ attempts = 0

(* t has a '/' node *)
RECURSIVE HasDivision(_)
HasDivision(t) ==
    IF IsNum(t) THEN FALSE
    ELSE t.op = "/" \/ HasDivision(t.left) \/ HasDivision(t.right)

\* C24: during generation the evaluation of a candidate tree never raises
\* ZeroDivisionError: zero_div_skips is 0 in every state of the generation
\* loop and after it, and no accepted tree has a zero divisor.
C24_NoZeroDivision ==
    gpc \in {"loop", "done"} =>
      /\ zero_div_skips = 0
      /\ attempts = dup_count + Len(items)
      /\ \A i \in 1..Len(items) : ~Raises(items[i].expr)

(* a problem with a division has been accepted and written *)
C24_Witness ==
    /\ gpc = "done" /\ zero_div_skips = 0 /\ Len(items) = 1
    /\ HasDivision(items[1].expr) /\ op_count(items[1].expr) = 3
    /\ items[1].val # FZero

\* C25: no two accepted problems of one batch have the same rendered problem
\* text: different canonical keys always render to different expression
\* strings.
C25_TextsDistinct ==
    gpc \in {"loop", "done"} =>
      \A i, j \in 1..Len(items) :
        i # j => to_str(items[i].expr) # to_str(items[j].expr)

(* t and every subtree of t evaluate, without raising, to a value >= 0 *)
RECURSIVE NonNegative(_)
NonNegative(t) ==
    /\ ~Raises(t) /\ FLe(FZero, evaluate(t))
    /\ IsNum(t) \/ (NonNegative(t.left) /\ NonNegative(t.right))

\* C26: every subtree of every tree build_expr_with_ops builds or returns
\* evaluates to a value >= 0, so every intermediate result and every answer
\* is non-negative and the answer text has no '-' sign.
C26_NonNegative ==
    bpc \in {"extend", "done"} =>
      /\ NonNegative(node)
      /\ ~Contains(fraction_to_str(evaluate(node)), Ch.minus)

(* (l - r) - leaf with three operators: both differences are >= 0 *)
C26_Witness ==
    /\ bpc = "done" /\ n_ops = 3 /\ node.op = "-"
    /\ ~IsNum(node.left) /\ node.left.op = "-"
    /\ evaluate(node) = <<1, 2>>
    /\ NonNegative(node)

(* every operator node of t has a leaf child, and a compound right child
   only under '-' or '/' *)
RECURSIVE Comb(_)
Comb(t) ==
    IF IsNum(t) THEN TRUE
    ELSE /\ IsNum(t.left) \/ IsNum(t.right)
         /\ ~IsNum(t.right) => t.op \in {"-", "/"}
         /\ Comb(t.left) /\ Comb(t.right)

\* C30: in the extension step of build_expr_with_ops the existing tree is a
\* direct child of the new root and the new leaf is the other child: '+',
\* '*' and the fallback '+' after 50 failed passes put the existing tree on
\* the left, only '-' and '/' may put it on the right; hence every operator
\* node of a built tree has a leaf child and a compound right child occurs
\* only under '-' or '/'.
C30_ExtensionShape ==
    /\ [](bpc \in {"extend", "done"} => Comb(node))
    /\ [][(bpc = "extend" /\ node' # node) =>
            /\ node'.kind = "BinOp"
            /\ \/ node'.left = node /\ node'.right = leaf
               \/ /\ node'.op \in {"-", "/"}
                  /\ node'.left = leaf /\ node'.right = node
            /\ tries = ExtendRetries => (node'.op = "+" /\ node'.left = node)]_vars

(* leaf - ((l op r) op leaf): the existing tree went to the right of '-' *)
C30_Witness ==
    /\ bpc = "done" /\ n_ops = 3 /\ node.op = "-"
    /\ IsNum(node.left) /\ ~IsNum(node.right)
    /\ ~IsNum(node.right.left) /\ IsNum(node.right.right)
    /\ Comb(node)

(* Infix grammar over tokens: expression = operand (operator operand)*,
   operand = number | "(" expression ")".  Each operator gives the position
   after the phrase that starts at position i, or 0 when there is none. *)
RECURSIVE OperandEnd(_, _)
RECURSIVE OperandsEnd(_, _)
ExpressionEnd(tokens, i) ==
    Only({IF j = 0 THEN 0 ELSE OperandsEnd(tokens, j) : j \in {OperandEnd(tokens, i)}})
OperandEnd(tokens, i) ==
    IF i > Len(tokens) THEN 0
    ELSE IF is_number(tokens[i]) THEN i + 1
    ELSE IF tokens[i] = <<Ch.lpar>>
    THEN Only({IF j # 0 /\ j <= Len(tokens) /\ tokens[j] = <<Ch.rpar>> THEN j + 1 ELSE 0 :
                 j \in {ExpressionEnd(tokens, i + 1)}})
    ELSE 0
OperandsEnd(tokens, j) ==
    IF j <= Len(tokens) /\ IsOpTok(tokens[j])
    THEN Only({IF k = 0 THEN 0 ELSE OperandsEnd(tokens, k) :
                 k \in {OperandEnd(tokens, j + 1)}})
    ELSE j

(* the tokens form one infix expression *)
WellFormed(tokens) == ExpressionEnd(tokens, 1) = Len(tokens) + 1

\* C27: the grader fails with ValueError for every problem line whose tokens
\* do not form a well-formed infix expression: unknown tokens, unbalanced
\* parentheses, two adjacent operands, an operator that is not between its
\* operands ("3 4 + =", "+ 3 4 ="); such a line is never evaluated to a value.
C27_IllFormedRejected ==
    (epc \in {"done", "raised"} /\ ~WellFormed(e_tokens)) =>
      /\ epc = "raised"
      /\ e_val.err = "ValueError"

(* every leaf of t is 0, t has no '/' node, and every right operand is a leaf *)
RECURSIVE ZeroLeftDeep(_)
ZeroLeftDeep(t) ==
    IF IsNum(t) THEN t.value = FZero
    ELSE /\ t.op \in {"+", "-", "*"}
         /\ IsNum(t.right) /\ ZeroLeftDeep(t.left) /\ ZeroLeftDeep(t.right)

(* the number of different canonical keys of the trees with k operators
   that can be built for r = 1 *)
KeysOfRangeOne(k) == Cardinality({key(t) : t \in build_expr_with_ops(1, k)})

\* C28: with r = 1 every leaf is 0, no '/' node is built, every accepted
\* problem evaluates to 0, and at most 39 problems (3 + 9 + 27 canonical keys
\* of left-deep trees over '+', '-', '*') are accepted in one batch; so
\* generate(1, n) with n > 39 uses its whole budget of 200 * n attempts and
\* returns fewer than n problems.
C28_RangeOne ==
    (gpc \in {"loop", "done"} /\ r = 1) =>
      /\ Len(items) <= 39
      /\ \A i \in 1..Len(items) :
           ZeroLeftDeep(items[i].expr) /\ items[i].val = FZero
      /\ attempts = 0 =>    \* the trees that can be drawn, looked at once per call
           /\ KeysOfRangeOne(1) = 3 /\ KeysOfRangeOne(2) = 9 /\ KeysOfRangeOne(3) = 27
           /\ \A k \in 1..3 : \A t \in build_expr_with_ops(1, k) : ZeroLeftDeep(t)
      /\ (gpc = "done" /\ n > 39) =>
           attempts = AttemptFactor * n /\ Len(items) < n

(* generate(1, 40) has ended with 39 problems after 8000 attempts *)
C28_Witness ==
    /\ gpc = "done" /\ r = 1 /\ n = 40
    /\ Len(items) = 39 /\ attempts = 8000
    /\ Len(exercises) = 39 /\ Cardinality(seen) = 39

\* C29: at the end of every pass of the generation loop the counters are
\* consistent: attempts = accepted problems + duplicate rejections +
\* zero-division rejections, and the three entries of the operator-count
\* histogram sum to attempts: the histogram counts every attempt, rejected
\* ones included.
C29_CountersConsistent ==
    gpc \in {"loop", "done"} =>
      /\ DOMAIN op_counts = 1..3
      /\ \A k \in 1..3 : op_counts[k] >= 0
      /\ op_counts[1] + op_counts[2] + op_counts[3] = attempts
      /\ Len(items) + dup_count + zero_div_skips = attempts
      /\ dup_count >= 0 /\ zero_div_skips >= 0
      /\ op_counts[1] + op_counts[2] + op_counts[3] >= Len(items)

(* three passes: two with one operator, the second of them rejected as a
   duplicate, and one with two operators *)
C29_Witness ==
    /\ gpc = "done" /\ attempts = 3 /\ Len(items) = 2 /\ dup_count = 1
    /\ op_counts = [k \in 1..3 |-> 3 - k]
    /\ op_count(items[1].expr) = 1 /\ op_count(items[2].expr) = 2
===========================================================================
